---- MODULE Spec2Model ----
(***************************************************************************)
(* PromptFlux session orchestration core: the coordinator of               *)
(* electron-app/src/main/index.ts, the worker supervisor                   *)
(* (SttProcessWatchdog), the control channel (SttWebSocketClient) and the  *)
(* hotkey edge detector (HotkeyController).                                *)
(*                                                                         *)
(* The program runs on one JavaScript event loop.  Every action below is   *)
(* one macrotask: an event handler together with all promise               *)
(* continuations it releases (these run as microtasks before the next      *)
(* event is taken).  A handler is written as a function from the state     *)
(* record S to the state record after it, so that a handler calling        *)
(* another handler is function composition; Commit stores the result.      *)
(* A setTimeout timer is a pending flag: the platform fires it at some     *)
(* later time, which is any later step.                                    *)
(***************************************************************************)
EXTENDS Integers, Sequences, FiniteSets, TLC

(* ---------------------------- bounds ----------------------------------- *)
\* watchdog/client pairs ever created: the one of bootstrap plus the reloads
MaxGen == 2
\* slots for concurrently running ensureSocketConnected loops
MaxLoops == 2
\* clock ticks of the supervisor specification
MaxTicks == 4
\* length of one clock tick in ms
TickMs == 10000
\* forced terminations after which the supervisor specification's owner
\* calls stop() no more
MaxKills == 2
\* onResult calls that may wait in handleOutput at once
MaxOutputs == 1
\* largest maxAttempts given to connect
MaxAttempts == 3
\* watcher processes the hotkey controller spawns
MaxWatchers == 2
\* lines a watcher has printed that the controller has not read yet
MaxLines == 1
\* parts of a hotkey string between its "+" signs
MaxTokens == 2

(* ------------------------ program constants ---------------------------- *)
MinWakeTimeoutMs == 1200
MaxWakeTimeoutMs == 30000
SuccessIdleDelayMs == 1500
ErrorIdleDelayMs == 3000
DefaultConfig ==
  [wakeRecordMs |-> 5000, transcriptionLanguage |-> "auto",
   outputMode |-> "clipboard-only", wakeWord |-> "hey promptflux"]
RestartWindowMs == 30000
RestartLimit == 3
RestartDelayMs == 500
StopGraceMs == 2000

Gens == 1..MaxGen
LoopIds == 1..MaxLoops
Modes == {"hold-to-talk", "press-to-talk", "wake-word"}
NoLoop == [pc |-> "off", on |-> 0, awaiter |-> "none"]
NoFrame == [form |-> "none", type |-> "", reason |-> "<absent>"]
NoDispatch == [frame |-> NoFrame, called |-> << >>, raised |-> "none"]
NoCall == [pc |-> "idle", maxAttempts |-> 0, delayMs |-> 0, attempt |-> 0,
           made |-> 0, opened |-> FALSE, timer |-> -1]
Watchers == 1..MaxWatchers
NoPoller == [st |-> "none", code |-> "null", killed |-> FALSE, down |-> FALSE,
             out |-> << >>, keys |-> {}]
NoController ==
  [active |-> FALSE, watcher |-> 0, watcherStopping |-> FALSE, spawned |-> 0,
   pollers |-> [w \in Watchers |-> NoPoller],
   reg |-> "never", last |-> "none", called |-> "none", line |-> "none",
   threw |-> FALSE]
NoSpawn == [triggerMode |-> "none", wakeWord |-> "none",
            transcriptionLanguage |-> "none"]
NoWatchdog ==
  [created |-> FALSE, child |-> FALSE, procs |-> 0, stopping |-> FALSE,
   restartTimestamps |-> << >>, restartTimers |-> << >>, waiters |-> {},
   kills |-> 0, fatal |-> 0, spawns |-> 0, crashTimes |-> << >>]

VARIABLES
  triggerMode,          \* appConfig.triggerMode
  recordingActive,      \* index.ts recordingActive
  wakeAutoStopTimer,    \* "none", or the start reason whose timer is pending, or "fired"
  status,               \* last value given to setRendererStatus
  idleTimer,            \* a setTimeout(() => setRendererStatus("idle")) is pending
  shutdownStarted,
  sttReloadInProgress,
  reconnectLoopRunning,
  sttClient,            \* 0 = null, else the client object's number
  sttWatchdog,          \* 0 = null, else the watchdog object's number
  created,              \* number of watchdog/client pairs created so far
  ws,                   \* per client: this.ws, "none" or "open"
  closeEvt,             \* per client: a locally closed socket whose close event is due
  loop,                 \* per loop slot: position of an ensureSocketConnected call
  bootPc,               \* bootstrap: "connecting", "done", "failed"
  reloadPc,             \* restartSttRuntime: "idle", "stopping", "connecting"
  shutdownPc,           \* before-quit: "idle", "bridge", "stopping", "exited"
  outputPending,        \* onResult calls waiting in handleOutput
  hkWatcher,            \* HotkeyController.watcher # null
  hkActive,             \* HotkeyController.active
  watcherDown,          \* $down of the running watcher script
  wd,                   \* per watchdog object: its fields and its child
  now,                  \* Date.now()
  lastCmd,              \* history: the last command put on a connection
  prevCmd,              \* history: the command sent before lastCmd
  lastEvent,            \* history: the last command sent or, later than it,
                        \* how a session ended with no STOP sent
  sentParity,           \* history: parity of the number of commands sent
  earlyReturn,          \* history: the guard that made the last step return
                        \* at once, "none" if it took none
  appConfig,            \* appConfig: wakeRecordMs, transcriptionLanguage,
                        \* outputMode (triggerMode is the variable above)
  autoStopTimers,       \* the pending timers that beginRecording has armed
  fx,                   \* history: when switched on, the calls that the last
                        \* step made to the outside, in their order, and
                        \* per supervisor the configuration it was given,
                        \* and whether the present connection of sttClient
                        \* carries a START that no STOP has followed
  dispatch,             \* history: what the message listener did with the
                        \* last frame it was given
  connectCall,          \* a call of connect(maxAttempts, delayMs) on a client
                        \* of its own
  hk                    \* a HotkeyController with the watcher processes it
                        \* has spawned, seen line by line and exit by exit

coreVars ==
  << triggerMode, recordingActive, wakeAutoStopTimer, status, idleTimer,
     shutdownStarted, sttReloadInProgress, reconnectLoopRunning, sttClient, sttWatchdog, created,
     ws, closeEvt, loop, bootPc, reloadPc, shutdownPc, outputPending, hkWatcher,
     hkActive, watcherDown, wd, now, lastCmd, prevCmd, lastEvent, sentParity,
     earlyReturn, appConfig, autoStopTimers >>

vars == << coreVars, fx, dispatch, connectCall, hk >>

S ==
  [triggerMode |-> triggerMode, recordingActive |-> recordingActive,
   wakeAutoStopTimer |-> wakeAutoStopTimer, status |-> status,
   idleTimer |-> idleTimer,
   shutdownStarted |-> shutdownStarted,
   sttReloadInProgress |-> sttReloadInProgress,
   reconnectLoopRunning |-> reconnectLoopRunning, sttClient |-> sttClient,
   sttWatchdog |-> sttWatchdog, created |-> created, ws |-> ws,
   closeEvt |-> closeEvt, loop |-> loop, bootPc |-> bootPc,
   reloadPc |-> reloadPc, shutdownPc |-> shutdownPc,
   outputPending |-> outputPending, hkWatcher |-> hkWatcher,
   hkActive |-> hkActive, watcherDown |-> watcherDown, wd |-> wd, now |-> now,
   lastCmd |-> lastCmd, prevCmd |-> prevCmd, lastEvent |-> lastEvent,
   sentParity |-> sentParity, earlyReturn |-> "none",
   appConfig |-> appConfig, autoStopTimers |-> autoStopTimers, fx |-> << >>,
   spawned |-> fx.spawned, started |-> fx.started]

\* the state record s becomes the state of the coordinator, its clients and
\* its supervisors
Store(s) ==
  /\ triggerMode' = s.triggerMode
  /\ recordingActive' = s.recordingActive
  /\ wakeAutoStopTimer' = s.wakeAutoStopTimer
  /\ status' = s.status
  /\ idleTimer' = s.idleTimer
  /\ shutdownStarted' = s.shutdownStarted
  /\ sttReloadInProgress' = s.sttReloadInProgress
  /\ reconnectLoopRunning' = s.reconnectLoopRunning
  /\ sttClient' = s.sttClient
  /\ sttWatchdog' = s.sttWatchdog
  /\ created' = s.created
  /\ ws' = s.ws
  /\ closeEvt' = s.closeEvt
  /\ loop' = s.loop
  /\ bootPc' = s.bootPc
  /\ reloadPc' = s.reloadPc
  /\ shutdownPc' = s.shutdownPc
  /\ outputPending' = s.outputPending
  /\ hkWatcher' = s.hkWatcher
  /\ hkActive' = s.hkActive
  /\ watcherDown' = s.watcherDown
  /\ wd' = s.wd
  /\ now' = s.now
  /\ lastCmd' = s.lastCmd
  /\ prevCmd' = s.prevCmd
  /\ lastEvent' = s.lastEvent
  /\ sentParity' = s.sentParity
  /\ earlyReturn' = s.earlyReturn
  /\ appConfig' = s.appConfig
  /\ autoStopTimers' = s.autoStopTimers

\* history only: the calls to the outside that led to s are recorded, the
\* configuration that each supervisor was created with, and the START that
\* the connection carries as long as the connection lasts
Record(s) ==
  fx' = IF fx.on
        THEN [fx EXCEPT !.log = s.fx, !.spawned = s.spawned,
                        !.started = /\ s.started /\ s.sttClient # 0
                                    /\ s.ws[s.sttClient] = "open"]
        ELSE fx

Commit(s) == Store(s) /\ Record(s) /\ UNCHANGED << dispatch, connectCall, hk >>

\* history only: a call to the outside: op the function called, arg its
\* arguments as far as they are looked at, ms the delay given to a timer
Effect(s, op, arg, ms) ==
  [s EXCEPT !.fx = Append(@, [op |-> op, arg |-> arg, ms |-> ms])]

\* history only: a command goes out on the open socket of client c
Sent(s, type, c) ==
  [s EXCEPT !.lastCmd = type, !.prevCmd = s.lastCmd, !.lastEvent = type,
            !.sentParity = 1 - @,
            !.started = (type = "START") \/ (@ /\ type # "STOP")]

\* history only: a session ends with no STOP sent
Mark(s, mark) == [s EXCEPT !.lastEvent = mark]

\* history only: the handler returns at once at the named guard
Returned(s, guard) == [s EXCEPT !.earlyReturn = guard]

(* --------------------- SttWebSocketClient ------------------------------ *)
isConnected(s, c) == c # 0 /\ s.ws[c] = "open"

\* variant: the command is transmitted whatever the connection state
send_NoCheck(s, c, type, payload) ==
  Effect(Sent(s, type, c), "ws.send", << type >> \o payload, 0)

\* payload is the sequence of the names and values of the payload's members
send(s, c, type, payload) ==
  IF ~isConnected(s, c) THEN s
  ELSE Effect(Sent(s, type, c), "ws.send", << type >> \o payload, 0)

close(s, c) ==
  IF c # 0 /\ s.ws[c] # "none"
  THEN [s EXCEPT !.ws[c] = "none", !.closeEvt[c] = TRUE]
  ELSE s

\* connect(maxAttempts, delayMs), as a call record k: pc is where the call
\* stands ("attempt" = awaiting connectOnce, "sleep" = awaiting the delay,
\* "resolved", "rejected"), attempt the loop variable, made the number of
\* connectOnce calls so far, opened whether one of them opened a socket,
\* timer the delay of the pending timer.
\* the for condition and, when it holds, the call of connectOnce
connectLoopHead(k) ==
  IF k.attempt <= k.maxAttempts
  THEN [k EXCEPT !.pc = "attempt", !.made = @ + 1]
  ELSE [k EXCEPT !.pc = "resolved"]

connect(maxAttempts, delayMs) ==
  connectLoopHead([NoCall EXCEPT !.maxAttempts = maxAttempts,
                                 !.delayMs = delayMs, !.attempt = 1])

(* -------------------------- session ------------------------------------ *)
setRendererStatus(s, st) == [s EXCEPT !.status = st]

setRendererTranscript(s, text, kind) ==
  Effect(s, "setRendererTranscript", << text, kind >>, 0)

\* clearTimeout on the handle, which refers to the timer armed last unless
\* that one has fired
clearWakeAutoStopTimer(s) ==
  IF s.wakeAutoStopTimer = "none" THEN s
  ELSE [s EXCEPT !.wakeAutoStopTimer = "none",
                 !.autoStopTimers =
                    IF s.wakeAutoStopTimer \in {"wake", "tap"}
                    THEN SubSeq(@, 1, Len(@) - 1) ELSE @]

\* variant: the configured duration is taken as it is
wakeTimeoutMs_NoClamp(config) == config.wakeRecordMs

wakeTimeoutMs(config) ==
  LET Math_max(a, b) == IF a >= b THEN a ELSE b
      Math_min(a, b) == IF a <= b THEN a ELSE b
  IN Math_max(MinWakeTimeoutMs, Math_min(MaxWakeTimeoutMs, config.wakeRecordMs))

\* the reason that the timer's callback gives to stopRecording
timeoutReason(reason) == IF reason = "tap" THEN "tap-timeout" ELSE "wake-timeout"

\* the payload of START
startPayload(reason) ==
  IF reason \in {"wake", "tap"} THEN << "reason", reason >> ELSE << >>

\* beginRecording from the test of the reason on
armWakeAutoStopTimer(s, reason) ==
  IF reason \in {"wake", "tap"}
  THEN LET s1 == clearWakeAutoStopTimer(s)
           ms == wakeTimeoutMs(s1.appConfig)
           s2 == [s1 EXCEPT !.wakeAutoStopTimer = reason,
                            !.autoStopTimers =
                               Append(@, [reason |-> reason, delayMs |-> ms])]
           s3 == Effect(s2, "setTimeout",
                        << "stopRecording", timeoutReason(reason) >>, ms)
       IN setRendererTranscript(s3, IF reason = "wake" THEN "Wake word detected"
                                    ELSE "Tap-to-talk active", "recording")
  ELSE setRendererTranscript(s, "Listening...", "recording")

\* beginRecording when the channel is found disconnected
rejectRecording(s) ==
  setRendererTranscript(setRendererStatus(s, "error"),
                        "STT service is not connected.", "error")

\* variant: the connectivity check comes before the active check
beginRecording_ConnectFirst(s, reason) ==
  IF ~isConnected(s, s.sttClient) THEN rejectRecording(s)
  ELSE IF s.recordingActive THEN Returned(s, "recordingActive")
  ELSE LET s1 == [s EXCEPT !.recordingActive = TRUE]
           s2 == send(s1, s1.sttClient, "START", startPayload(reason))
           s3 == setRendererStatus(s2, "recording")
       IN armWakeAutoStopTimer(s3, reason)

\* variant: no active check
beginRecording_NoGuard(s, reason) ==
  IF ~isConnected(s, s.sttClient) THEN rejectRecording(s)
  ELSE LET s1 == [s EXCEPT !.recordingActive = TRUE]
           s2 == send(s1, s1.sttClient, "START", startPayload(reason))
           s3 == setRendererStatus(s2, "recording")
       IN armWakeAutoStopTimer(s3, reason)

\* variant: no connectivity check
beginRecording_NoConnectCheck(s, reason) ==
  IF s.recordingActive THEN Returned(s, "recordingActive")
  ELSE LET s1 == [s EXCEPT !.recordingActive = TRUE]
           s2 == send(s1, s1.sttClient, "START", startPayload(reason))
           s3 == setRendererStatus(s2, "recording")
       IN armWakeAutoStopTimer(s3, reason)

beginRecording(s, reason) ==
  IF s.recordingActive THEN Returned(s, "recordingActive")
  ELSE IF ~isConnected(s, s.sttClient) THEN rejectRecording(s)
  ELSE LET s1 == [s EXCEPT !.recordingActive = TRUE]
           s2 == send(s1, s1.sttClient, "START", startPayload(reason))
           s3 == setRendererStatus(s2, "recording")
       IN armWakeAutoStopTimer(s3, reason)

\* the text that stopRecording shows for the reason
stopTranscript(reason) ==
  CASE reason = "wake-timeout" -> "Wake max duration reached. Transcribing..."
    [] reason = "tap-timeout" -> "Tap-to-talk max duration reached. Transcribing..."
    [] reason \in {"wake-silence", "tap-silence"} -> "Silence detected. Transcribing..."
    [] OTHER -> "Transcribing..."

\* stopRecording after the flag is cleared
stopRecordingRest(s, reason) ==
  IF ~isConnected(s, s.sttClient)
  THEN Mark(rejectRecording(s), "DROP")
  ELSE LET s1 == setRendererStatus(s, "transcribing")
           s2 == setRendererTranscript(s1, stopTranscript(reason), "transcribing")
       IN send(s2, s2.sttClient, "STOP",
               << "language", s2.appConfig.transcriptionLanguage >>)

\* variant: no active check
stopRecording_NoGuard(s, reason) ==
  stopRecordingRest([clearWakeAutoStopTimer(s) EXCEPT !.recordingActive = FALSE],
                    reason)

stopRecording(s, reason) ==
  IF ~s.recordingActive THEN s
  ELSE stopRecordingRest([clearWakeAutoStopTimer(s) EXCEPT !.recordingActive = FALSE],
                         reason)

(* ---------------------- SttProcessWatchdog ----------------------------- *)
\* wd[w]: child = (this.child # null); procs = live processes this object
\* spawned; waiters = the callers awaiting stop(), each with its grace timer
\* pending; restartTimers = delays of the pending restart timers;
\* kills, fatal, spawns = history counters; crashTimes = history of the
\* times of all calls of handleCrashAndRestart.
spawnChild(s, w) ==
  [s EXCEPT !.wd[w].child = TRUE, !.wd[w].procs = @ + 1, !.wd[w].spawns = @ + 1]

start(s, w) == spawnChild([s EXCEPT !.wd[w].stopping = FALSE], w)

\* variant: nothing is pruned
PruneLedger_KeepAll(ts, t) == ts

PruneLedger(ts, t) ==
  LET InWindow(x) == t - x <= RestartWindowMs IN SelectSeq(ts, InWindow)

\* variant: the limit is not checked
handleCrashAndRestart_NoLimit(s, w) ==
  LET led == Append(PruneLedger(s.wd[w].restartTimestamps, s.now), s.now)
      s1 == [s EXCEPT !.wd[w].restartTimestamps = led,
                      !.wd[w].crashTimes = Append(@, s.now)]
  IN [state |-> [s1 EXCEPT !.wd[w].restartTimers = Append(@, RestartDelayMs)],
      message |-> FALSE]

\* returns the state after the call and whether a fatal message is returned
handleCrashAndRestart(s, w) ==
  LET led == Append(PruneLedger(s.wd[w].restartTimestamps, s.now), s.now)
      s1 == [s EXCEPT !.wd[w].restartTimestamps = led,
                      !.wd[w].crashTimes = Append(@, s.now)]
  IN IF Len(led) > RestartLimit
     THEN [state |-> s1, message |-> TRUE]
     ELSE [state |-> [s1 EXCEPT !.wd[w].restartTimers = Append(@, RestartDelayMs)],
           message |-> FALSE]

onFatalExit(s, w) ==
  setRendererStatus([s EXCEPT !.wd[w].fatal = @ + 1], "error")

\* variant: the intentional-stop flag is not consulted
onChildExit_IgnoreStopping(s, w, code) ==
  LET s1 == [s EXCEPT !.wd[w].child = FALSE, !.wd[w].procs = @ - 1]
  IN IF code = 0 THEN s1
     ELSE LET r == handleCrashAndRestart(s1, w)
          IN IF r.message THEN onFatalExit(r.state, w) ELSE r.state

onChildExit(s, w, code) ==
  LET s1 == [s EXCEPT !.wd[w].child = FALSE, !.wd[w].procs = @ - 1]
  IN IF s1.wd[w].stopping \/ code = 0 THEN s1
     ELSE LET r == handleCrashAndRestart(s1, w)
          IN IF r.message THEN onFatalExit(r.state, w) ELSE r.state

\* the synchronous part of stop(); who is waiting afterwards iff a child exists
stop(s, w, who) ==
  LET s1 == [s EXCEPT !.wd[w].stopping = TRUE]
  IN IF ~s1.wd[w].child THEN s1
     ELSE [s1 EXCEPT !.wd[w].waiters =
                       @ \cup {[who |-> who, graceMs |-> StopGraceMs]}]

Waiting(s, w, who) == \E x \in s.wd[w].waiters : x.who = who

\* the grace timer of one stop() call
onGraceTimeout(s, w, who) ==
  [s EXCEPT !.wd[w].kills = @ + 1,
            !.wd[w].waiters = {x \in @ : x.who # who}]

(* --------------------- HotkeyController -------------------------------- *)
unregisterAll(s) ==
  [s EXCEPT !.hkActive = FALSE, !.hkWatcher = FALSE, !.watcherDown = FALSE]

registerHoldToTalkHotkey(s) == [unregisterAll(s) EXCEPT !.hkWatcher = TRUE]

resetState(s) ==
  Effect([s EXCEPT !.hkActive = FALSE], "hotkeyController.resetState", << >>, 0)

registerRecordHotkey(s) == registerHoldToTalkHotkey(s)

(* ------------------ coordinator: reconnect loop ------------------------ *)
finishReload(s, outcome) ==
  LET s1 == IF outcome = "ok" THEN s ELSE setRendererStatus(s, "error")
  IN [s1 EXCEPT !.sttReloadInProgress = FALSE, !.reloadPc = "idle"]

\* what runs when an awaited ensureSocketConnected settles
Resume(s, awaiter, outcome) ==
  CASE awaiter = "bootstrap" ->
         IF outcome = "ok"
         THEN registerRecordHotkey([s EXCEPT !.bootPc = "done"])
         ELSE [s EXCEPT !.bootPc = "failed"]
    [] awaiter = "reload" -> finishReload(s, outcome)
    [] OTHER -> s

loopExit(s, l, outcome) ==
  LET aw == s.loop[l].awaiter
      s1 == [s EXCEPT !.reconnectLoopRunning = FALSE, !.loop[l] = NoLoop]
  IN Resume(s1, aw, outcome)

\* the while condition and, when it holds, the start of connect(1, 0)
loopIterate(s, l) ==
  IF s.shutdownStarted THEN loopExit(s, l, "ok")
  ELSE IF s.sttClient = 0 THEN loopExit(s, l, "TypeError")
  ELSE IF isConnected(s, s.sttClient) THEN loopExit(s, l, "ok")
  ELSE [s EXCEPT !.loop[l].pc = "connect", !.loop[l].on = s.sttClient]

FreeLoops(s) == {l \in LoopIds : s.loop[l].pc = "off"}

\* variant: the single-flight flag is not consulted
ensureSocketConnected_NoFlag(s, awaiter) ==
  IF s.sttClient = 0 \/ s.shutdownStarted \/ FreeLoops(s) = {}
  THEN Resume(s, awaiter, "ok")
  ELSE LET l == CHOOSE x \in FreeLoops(s) : \A y \in FreeLoops(s) : x <= y
           s1 == [s EXCEPT !.reconnectLoopRunning = TRUE,
                           !.loop[l] = [pc |-> "enter", on |-> 0,
                                        awaiter |-> awaiter]]
       IN loopIterate(s1, l)

ensureSocketConnected(s, awaiter) ==
  IF s.sttClient = 0 \/ s.reconnectLoopRunning \/ s.shutdownStarted
     \/ FreeLoops(s) = {}
  THEN Resume(IF s.sttClient # 0 /\ s.reconnectLoopRunning
              THEN Returned(s, "reconnectLoopRunning") ELSE s,
              awaiter, "ok")
  ELSE LET l == CHOOSE x \in FreeLoops(s) : \A y \in FreeLoops(s) : x <= y
           s1 == [s EXCEPT !.reconnectLoopRunning = TRUE,
                           !.loop[l] = [pc |-> "enter", on |-> 0,
                                        awaiter |-> awaiter]]
       IN loopIterate(s1, l)

(* ------------------ coordinator: channel handlers ---------------------- *)
EndSession(s, mark) ==
  IF s.recordingActive THEN Mark(s, mark) ELSE s

onReady(s) == setRendererStatus(s, "idle")

\* variant: the trigger mode is not looked at
onWake_AnyMode(s, wake_word) == beginRecording(s, "wake")

\* wake_word is "<absent>" when the frame has no such member
onWake(s, wake_word) ==
  IF s.triggerMode # "wake-word" THEN s
  ELSE LET s1 == IF wake_word \notin {"<absent>", ""}
                    /\ wake_word # s.appConfig.wakeWord
                 THEN [s EXCEPT !.appConfig.wakeWord = wake_word] ELSE s
       IN beginRecording(s1, "wake")

onAutoStop(s, reason) ==
  IF ~s.recordingActive THEN s
  ELSE IF s.triggerMode = "press-to-talk"
  THEN stopRecording(s, IF reason = "silence" THEN "tap-silence" ELSE "tap-timeout")
  ELSE stopRecording(s, IF reason = "silence" THEN "wake-silence" ELSE "wake-timeout")

\* onResult after its await of handleOutput
\* variant: the controller's state is not reset
onResultRest_NoReset(s) ==
  LET s1 == setRendererStatus(s, "success")
  IN Effect([s1 EXCEPT !.idleTimer = TRUE], "setTimeout",
            << "setRendererStatus", "idle" >>, SuccessIdleDelayMs)

onResultRest(s) ==
  LET s1 == setRendererStatus(s, "success")
      s2 == Effect([s1 EXCEPT !.idleTimer = TRUE], "setTimeout",
                   << "setRendererStatus", "idle" >>, SuccessIdleDelayMs)
  IN resetState(s2)

\* variant: the timer is not cleared
onResult_KeepTimer(s, text) ==
  LET s1 == [EndSession(s, "RESULT") EXCEPT !.recordingActive = FALSE]
      s2 == Effect(s1, "handleOutput", << text, s1.appConfig.outputMode >>, 0)
  IN IF s2.appConfig.outputMode = "auto-paste"
     THEN [s2 EXCEPT !.outputPending = @ + 1]
     ELSE onResultRest(s2)

\* onResult up to its await of handleOutput, which with "auto-paste" waits
\* for the paste helper to exit while other events are handled, and with
\* "clipboard-only" is settled at once: the rest of onResult then runs as a
\* microtask, before any other event
onResult(s, text) ==
  LET s1 == [EndSession(s, "RESULT") EXCEPT !.recordingActive = FALSE]
      s2 == Effect(clearWakeAutoStopTimer(s1), "handleOutput",
                   << text, s1.appConfig.outputMode >>, 0)
  IN IF s2.appConfig.outputMode = "auto-paste"
     THEN [s2 EXCEPT !.outputPending = @ + 1]
     ELSE onResultRest(s2)

\* onResult after handleOutput resolved
onResultDelivered(s) == onResultRest([s EXCEPT !.outputPending = @ - 1])

\* variant: the idle timer of the success path
onError_SuccessDelay(s, code, message) ==
  LET s1 == [EndSession(s, "ERROR") EXCEPT !.recordingActive = FALSE]
      s2 == Effect(clearWakeAutoStopTimer(s1), "setRendererTranscript",
                   << code, message, "error" >>, 0)
      s3 == setRendererStatus(s2, "error")
      s4 == Effect([s3 EXCEPT !.idleTimer = TRUE], "setTimeout",
                   << "setRendererStatus", "idle" >>, SuccessIdleDelayMs)
  IN resetState(s4)

onError(s, code, message) ==
  LET s1 == [EndSession(s, "ERROR") EXCEPT !.recordingActive = FALSE]
      s2 == Effect(clearWakeAutoStopTimer(s1), "setRendererTranscript",
                   << code, message, "error" >>, 0)
      s3 == setRendererStatus(s2, "error")
      s4 == Effect([s3 EXCEPT !.idleTimer = TRUE], "setTimeout",
                   << "setRendererStatus", "idle" >>, ErrorIdleDelayMs)
  IN resetState(s4)

\* variant: the close handler only reports
onClose_ReportOnly(s) ==
  IF s.shutdownStarted \/ s.sttReloadInProgress THEN s
  ELSE setRendererStatus(s, "error")

onClose(s) ==
  IF s.shutdownStarted \/ s.sttReloadInProgress THEN s
  ELSE ensureSocketConnected(setRendererStatus(s, "error"), "none")

(* ------------- SttWebSocketClient: inbound frames ---------------------- *)
\* A frame is its text, as far as parseType and parseObject look at it:
\* form "text" is a text that does not begin with a brace, type being the
\* text; form "json" is a well-formed object, type being the value of its
\* "type" member ("<absent>" if it has none, "<number>" if the value is no
\* string) and reason that of its "reason" member; form "malformed" is a
\* text in braces that JSON.parse rejects; form "truncated" is a text that
\* begins with a brace and does not end with one.
FrameTypes ==
  {"READY", "WAKE", "AUTO_STOP", "RESULT", "ERROR", "ready", " READY ", "PING", ""}

Frames ==
  [form : {"text"}, type : FrameTypes, reason : {"<absent>"}]
  \cup [form : {"json"}, type : FrameTypes \cup {"<absent>", "<number>"},
        reason : {"<absent>"}]
  \cup [form : {"json"}, type : {"AUTO_STOP"}, reason : {"silence", "timeout"}]
  \cup [form : {"malformed", "truncated"}, type : {"READY", "RESULT"},
        reason : {"<absent>"}]

\* String.prototype.toUpperCase and trim on the texts above and on the
\* hotkey tokens
toUpperCase(x) ==
  CASE x = "ready" -> "READY"
    [] x = "Ctrl" -> "CTRL"
    [] x = "control" -> "CONTROL"
    [] OTHER -> x

trim(x) ==
  CASE x = " READY " -> "READY"
    [] x = " control" -> "control"
    [] OTHER -> x

\* variant: the text in braces is not parsed, its kind is read off as is
parseType_NoParse(raw) ==
  IF raw.form = "json" /\ raw.type \in {"<absent>", "<number>"} THEN ""
  ELSE toUpperCase(raw.type)

parseType(raw) ==
  CASE raw.form = "json" ->
         IF raw.type \in {"<absent>", "<number>"} THEN ""
         ELSE toUpperCase(raw.type)
    [] raw.form = "malformed" -> ""
    [] raw.form = "truncated" -> "<the text>"
    [] OTHER -> toUpperCase(trim(raw.type))

\* the members that the listener reads, as it hands them to the handlers;
\* no frame above has a text, a code or a message
parseObject(raw) ==
  [reason |-> IF raw.form = "json" THEN raw.reason ELSE "<absent>",
   text |-> "", code |-> "UNKNOWN", message |-> "Unknown error",
   wake_word |-> "<absent>"]

\* the message listener on the frame raw; fails says whether the handler it
\* calls raises, which it then does before it has changed anything.  The
\* listener has no try block and drops the promise that onResult returns.
\* Returns the state afterwards, the handlers called, and what was raised
\* and not caught: "exception" leaves the listener, "rejection" is the
\* rejection of the dropped promise.
onMessage(s, raw, fails) ==
  LET kind == parseType(raw)
      payload == parseObject(raw)
      Call(h, after) ==
        [state |-> IF fails THEN s ELSE after, called |-> << h >>,
         raised |-> IF ~fails THEN "none"
                    ELSE IF h = "onResult" THEN "rejection" ELSE "exception"]
  IN CASE kind = "READY" -> Call("onReady", onReady(s))
       [] kind = "WAKE" -> Call("onWake", onWake(s, payload.wake_word))
       [] kind = "AUTO_STOP" -> Call("onAutoStop", onAutoStop(s, payload.reason))
       [] kind = "RESULT" -> Call("onResult", onResult(s, payload.text))
       [] kind = "ERROR" ->
            Call("onError", onError(s, payload.code, payload.message))
       [] OTHER -> [state |-> s, called |-> << >>, raised |-> "none"]

(* ------------- HotkeyController, line by line ------------------------- *)
\* The controller record h: active, watcher (0 = null, else the number of
\* the watcher process), watcherStopping; spawned = number of watcher
\* processes spawned so far; pollers[w] = the w-th watcher process: st is
\* "running", "ended" (the process is gone, its exit event is due) or
\* "exited" (the exit event was delivered), code its exit code, killed the
\* killed flag of the ChildProcess, down the script's $down (FALSE once the
\* process is gone), out the lines
\* printed and not yet read, keys the key codes it polls.  History: reg =
\* the outcome of the last registerHoldToTalkHotkey or unregisterAll call,
\* last = the last of the handler calls onStart, onStop and the calls
\* resetState, unregisterAll; and of the last step: called = the handler it
\* called, line = the line it read, threw = it threw.
\* A hotkey string is the sequence of its parts between "+" signs.
HotkeyTokens == {"Ctrl", " control", "F25", ""}

Hotkeys == UNION {[1..n -> HotkeyTokens] : n \in 1..MaxTokens}

normalizeToken(token) == toUpperCase(trim(token))

\* the virtual key code, 0 when the token is rejected with an error
tokenToVirtualKey(token) ==
  LET tk == normalizeToken(token)
  IN CASE tk \in {"CTRL", "CONTROL", "CMDORCTRL"} -> 17
       [] tk = "SHIFT" -> 16
       [] OTHER -> 0

\* variant: nothing is rejected
parseHotkey_NoCheck(hotkey) ==
  LET NonEmpty(x) == x # ""
      tokens == SelectSeq([i \in 1..Len(hotkey) |-> trim(hotkey[i])], NonEmpty)
      mapped == [i \in 1..Len(tokens) |-> tokenToVirtualKey(tokens[i])]
  IN [error |-> "none", keyCodes |-> {mapped[i] : i \in 1..Len(tokens)}]

\* returns the error thrown, "none" if none, and the key codes
parseHotkey(hotkey) ==
  LET NonEmpty(x) == x # ""
      tokens == SelectSeq([i \in 1..Len(hotkey) |-> trim(hotkey[i])], NonEmpty)
      mapped == [i \in 1..Len(tokens) |-> tokenToVirtualKey(tokens[i])]
  IN IF Len(tokens) = 0
     THEN [error |-> "Hotkey cannot be empty", keyCodes |-> {}]
     ELSE IF \E i \in 1..Len(tokens) : mapped[i] = 0
     THEN [error |-> "Unsupported hotkey token", keyCodes |-> {}]
     ELSE [error |-> "none", keyCodes |-> {mapped[i] : i \in 1..Len(tokens)}]

\* ChildProcess.kill() on a process that has not exited
kill(h, w) ==
  IF h.pollers[w].st = "running"
  THEN [h EXCEPT !.pollers[w].st = "ended", !.pollers[w].killed = TRUE,
                 !.pollers[w].down = FALSE]
  ELSE h

HK_unregisterAll(h) ==
  LET w == h.watcher
      h1 == [h EXCEPT !.watcherStopping = TRUE, !.active = FALSE]
      h2 == IF w # 0 /\ ~h1.pollers[w].killed THEN kill(h1, w) ELSE h1
  IN [h2 EXCEPT !.watcher = 0, !.last = "unregisterAll", !.reg = "unregistered"]

HK_registerHoldToTalkHotkey(h, hotkey) ==
  LET h1 == [HK_unregisterAll(h) EXCEPT !.watcherStopping = FALSE]
      parsed == parseHotkey(hotkey)
      w == h1.spawned + 1
  IN IF parsed.error # "none"
     THEN [h1 EXCEPT !.threw = TRUE, !.reg = "failed"]
     ELSE [h1 EXCEPT !.spawned = w, !.watcher = w, !.reg = "registered",
                     !.pollers[w] = [NoPoller EXCEPT !.st = "running",
                                                     !.keys = parsed.keyCodes]]

HK_resetState(h) == [h EXCEPT !.active = FALSE, !.last = "resetState"]

\* variant: the handlers are called whatever the active flag says
HK_onData_NoActiveCheck(h, w) ==
  LET event == Head(h.pollers[w].out)
      h1 == [h EXCEPT !.pollers[w].out = Tail(@), !.line = event]
  IN IF event = "DOWN"
     THEN [h1 EXCEPT !.active = TRUE, !.called = "onStart", !.last = "onStart"]
     ELSE [h1 EXCEPT !.active = FALSE, !.called = "onStop", !.last = "onStop"]

\* the data listener of watcher w, given one line
HK_onData(h, w) ==
  LET event == Head(h.pollers[w].out)
      h1 == [h EXCEPT !.pollers[w].out = Tail(@), !.line = event]
  IN IF event = "DOWN" /\ ~h1.active
     THEN [h1 EXCEPT !.active = TRUE, !.called = "onStart", !.last = "onStart"]
     ELSE IF event = "UP" /\ h1.active
     THEN [h1 EXCEPT !.active = FALSE, !.called = "onStop", !.last = "onStop"]
     ELSE h1

\* the exit listener of watcher w
HK_onExit(h, w) ==
  LET h1 == [h EXCEPT !.watcher = 0, !.pollers[w].st = "exited"]
  IN IF ~h1.watcherStopping /\ h1.pollers[w].code \notin {"0", "null"}
     THEN [h1 EXCEPT !.called = "onError"]
     ELSE h1

(* ------------------ coordinator: reload and shutdown ------------------- *)
appExit(s) == [s EXCEPT !.shutdownPc = "exited"]

\* the configuration that the new supervisor hands to its workers
createWatchdog(mode, config) ==
  [triggerMode |-> mode, wakeWord |-> config.wakeWord,
   transcriptionLanguage |-> config.transcriptionLanguage]

\* restartSttRuntime after its await of sttWatchdog.stop()
reloadAfterStop(s) ==
  LET g == s.created + 1
      s1 == [s EXCEPT !.sttWatchdog = 0]
      made == createWatchdog(s1.triggerMode, s1.appConfig)
      s2 == [s1 EXCEPT !.created = g, !.wd[g] = [NoWatchdog EXCEPT !.created = TRUE],
                       !.sttWatchdog = g,
                       !.spawned = IF g \in DOMAIN @ THEN [@ EXCEPT ![g] = made]
                                   ELSE @]
      s3 == [start(s2, g) EXCEPT !.sttClient = g, !.reloadPc = "connecting"]
  IN ensureSocketConnected(s3, "reload")

\* variant: neither flag is looked at
restartSttRuntime_NoGuard(s) ==
  LET s1 == [EndSession(s, "RELOAD") EXCEPT !.sttReloadInProgress = TRUE,
                                           !.recordingActive = FALSE]
      s2 == setRendererTranscript(
              setRendererStatus(clearWakeAutoStopTimer(s1), "connecting"),
              "Applying listener settings...", "neutral")
      s3 == close([s2 EXCEPT !.sttClient = 0], s2.sttClient)
      w == s3.sttWatchdog
  IN IF w = 0 THEN reloadAfterStop(s3)
     ELSE LET s4 == stop(s3, w, "reload")
          IN IF Waiting(s4, w, "reload")
             THEN [s4 EXCEPT !.reloadPc = "stopping"]
             ELSE reloadAfterStop(s4)

restartSttRuntime(s) ==
  IF s.shutdownStarted \/ s.sttReloadInProgress THEN s
  ELSE LET s1 == [EndSession(s, "RELOAD") EXCEPT !.sttReloadInProgress = TRUE,
                                                !.recordingActive = FALSE]
           s2 == setRendererTranscript(
                   setRendererStatus(clearWakeAutoStopTimer(s1), "connecting"),
                   "Applying listener settings...", "neutral")
           s3 == close([s2 EXCEPT !.sttClient = 0], s2.sttClient)
           w == s3.sttWatchdog
       IN IF w = 0 THEN reloadAfterStop(s3)
          ELSE LET s4 == stop(s3, w, "reload")
               IN IF Waiting(s4, w, "reload")
                  THEN [s4 EXCEPT !.reloadPc = "stopping"]
                  ELSE reloadAfterStop(s4)

\* a stop() call settled: the caller's continuation
ResumeStop(s, who) ==
  CASE who = "reload" -> reloadAfterStop(s)
    [] who = "shutdown" -> appExit(s)
    [] OTHER -> s

\* the exit event of a child of w: the exit handler of spawnChild, then the
\* once("exit") listeners of the stop() calls, then their continuations in
\* the order the calls were made (a reload's stop precedes a shutdown's)
childExited(s, w, code) ==
  LET s1 == onChildExit(s, w, code)
      s2 == [s1 EXCEPT !.wd[w].waiters = {}]
      s3 == IF Waiting(s1, w, "reload") THEN ResumeStop(s2, "reload") ELSE s2
  IN IF Waiting(s1, w, "shutdown") THEN ResumeStop(s3, "shutdown") ELSE s3

beforeQuit(s) ==
  IF s.shutdownStarted THEN s
  ELSE LET s1 == [s EXCEPT !.shutdownStarted = TRUE]
           s2 == close(send(s1, s1.sttClient, "QUIT", << >>), s1.sttClient)
       IN [s2 EXCEPT !.shutdownPc = "bridge"]

\* before-quit after its await of mobileBridge.stop()
quitAfterBridge(s) ==
  LET s1 == unregisterAll(s)
      w == s1.sttWatchdog
  IN IF w = 0 THEN appExit(s1)
     ELSE LET s2 == stop(s1, w, "shutdown")
          IN IF Waiting(s2, w, "shutdown")
             THEN [s2 EXCEPT !.shutdownPc = "stopping"]
             ELSE appExit(s2)

\* whether settings:save finds that the worker must be restarted; other
\* says that a setting changes which the worker is given and the model does
\* not hold (the silence settings, the capture source, the devices, the
\* pre-buffer)
restartRequired(s, next) ==
  \/ s.triggerMode # next.triggerMode
  \/ s.appConfig.wakeWord # next.wakeWord
  \/ s.appConfig.transcriptionLanguage # next.transcriptionLanguage
  \/ next.other

\* settings:save with the sanitized request next; hotkey says whether the
\* request keeps the hotkey ("same"), names another one that can be
\* registered ("valid") or one that registerHoldToTalkHotkey rejects
\* ("invalid"): the handler then registers the previous hotkey again and
\* throws, before it has looked at restartRequired.  No mobile bridge runs.
settingsSaveRequest(s, next) ==
  LET s1 == [s EXCEPT !.triggerMode = next.triggerMode,
                      !.appConfig = [wakeRecordMs |-> next.wakeRecordMs,
                                     transcriptionLanguage |-> next.transcriptionLanguage,
                                     outputMode |-> next.outputMode,
                                     wakeWord |-> next.wakeWord]]
  IN IF next.hotkey = "invalid"
     THEN Effect(registerRecordHotkey(s1), "throw", << "settings:save" >>, 0)
     ELSE LET s2 == IF next.hotkey = "valid" THEN registerRecordHotkey(s1) ELSE s1
              s3 == Effect(s2, "saveConfig", << >>, 0)
          IN IF restartRequired(s, next)
             THEN restartSttRuntime(Effect(s3, "restartSttRuntime",
                                           << "settings:save" >>, 0))
             ELSE s3

\* settings:save with a request that changes nothing but the trigger mode,
\* the hotkey and the settings that the model does not hold
settingsSave(s, mode, other, hotkeyChanged) ==
  settingsSaveRequest(s, [triggerMode |-> mode,
                          wakeRecordMs |-> s.appConfig.wakeRecordMs,
                          transcriptionLanguage |-> s.appConfig.transcriptionLanguage,
                          outputMode |-> s.appConfig.outputMode,
                          wakeWord |-> s.appConfig.wakeWord,
                          hotkey |-> IF hotkeyChanged THEN "valid" ELSE "same",
                          other |-> other])

(* ------------------ coordinator: trigger handlers ---------------------- *)
hotkeyOnStart(s) ==
  IF s.triggerMode = "press-to-talk" THEN s ELSE beginRecording(s, "hotkey")

hotkeyOnStop(s) ==
  IF s.triggerMode = "press-to-talk"
  THEN IF s.recordingActive THEN stopRecording(s, "hotkey")
       ELSE beginRecording(s, "tap")
  ELSE stopRecording(s, "hotkey")

\* one line of the watcher's stdout
onWatcherLine(s, event) ==
  IF event = "DOWN" /\ ~s.hkActive THEN hotkeyOnStart([s EXCEPT !.hkActive = TRUE])
  ELSE IF event = "UP" /\ s.hkActive THEN hotkeyOnStop([s EXCEPT !.hkActive = FALSE])
  ELSE s

\* the i-th pending timer fires: it is pending no more, and its callback
\* runs
onAutoStopTimer(s, i) ==
  LET timer == s.autoStopTimers[i]
      n == Len(s.autoStopTimers)
      s1 == [s EXCEPT !.autoStopTimers = SubSeq(@, 1, i - 1) \o SubSeq(@, i + 1, n),
                      !.wakeAutoStopTimer =
                         IF i = n /\ @ \in {"wake", "tap"} THEN "fired" ELSE @]
  IN IF s1.recordingActive
     THEN stopRecording(s1, timeoutReason(timer.reason))
     ELSE s1

(* ============================ actions ================================== *)
Running == shutdownPc # "exited"
LiveWorkers == {w \in Gens : wd[w].procs > 0}

\* the state when bootstrap awaits the first connection, but for the
\* configuration
InitCore ==
  /\ triggerMode \in Modes
  /\ recordingActive = FALSE
  /\ wakeAutoStopTimer = "none"
  /\ status = "connecting"
  /\ idleTimer = FALSE
  /\ shutdownStarted = FALSE
  /\ sttReloadInProgress = FALSE
  /\ reconnectLoopRunning = TRUE
  /\ sttClient = 1
  /\ sttWatchdog = 1
  /\ created = 1
  /\ ws = [c \in Gens |-> "none"]
  /\ closeEvt = [c \in Gens |-> FALSE]
  /\ loop = [l \in LoopIds |->
               IF l = 1 THEN [pc |-> "connect", on |-> 1, awaiter |-> "bootstrap"]
               ELSE NoLoop]
  /\ bootPc = "connecting"
  /\ reloadPc = "idle"
  /\ shutdownPc = "idle"
  /\ outputPending = 0
  /\ hkWatcher = FALSE
  /\ hkActive = FALSE
  /\ watcherDown = FALSE
  /\ wd = [w \in Gens |->
             IF w = 1
             THEN [NoWatchdog EXCEPT !.created = TRUE, !.child = TRUE,
                                     !.procs = 1, !.spawns = 1]
             ELSE NoWatchdog]
  /\ now = 0
  /\ lastCmd = "none"
  /\ prevCmd = "none"
  /\ lastEvent = "none"
  /\ sentParity = 0
  /\ earlyReturn = "none"
  /\ autoStopTimers = << >>
  /\ dispatch = NoDispatch
  /\ connectCall = NoCall
  /\ hk = NoController

\* the configuration file has the defaults but for the trigger mode and the
\* output mode, which is "auto-paste": handleOutput then takes time, and
\* what can happen with "clipboard-only" can happen with it as well; no
\* history of calls and of supervisors is kept
Init ==
  /\ InitCore
  /\ appConfig = [DefaultConfig EXCEPT !.outputMode = "auto-paste"]
  /\ fx = [on |-> FALSE, log |-> << >>, spawned |-> << >>, started |-> FALSE]

(* ---- trigger sources ---- *)
\* the watcher script sees the combination go down and prints DOWN
KeyDown ==
  /\ Running /\ hkWatcher /\ ~watcherDown
  /\ Commit(onWatcherLine([S EXCEPT !.watcherDown = TRUE], "DOWN"))

\* the watcher script sees the combination released and prints UP
KeyUp ==
  /\ Running /\ hkWatcher /\ watcherDown
  /\ Commit(onWatcherLine([S EXCEPT !.watcherDown = FALSE], "UP"))

AutoStopTimerFires ==
  /\ Running
  /\ \E i \in 1..Len(autoStopTimers) : Commit(onAutoStopTimer(S, i))

\* one of the pending status timers of onResult and onError fires; others
\* may remain pending
IdleTimerFires ==
  /\ Running /\ idleTimer
  /\ \E more \in BOOLEAN :
       Commit([setRendererStatus(S, "idle") EXCEPT !.idleTimer = more])

(* ---- inbound frames on an open connection of client c ---- *)
MsgReady(c) == Running /\ ws[c] = "open" /\ Commit(onReady(S))

\* a WAKE frame that names the configured phrase
MsgWake(c) ==
  Running /\ ws[c] = "open" /\ Commit(onWake(S, appConfig.wakeWord))

\* a WAKE frame with the phrase that the worker reports
WakeWords == {"hey promptflux", "computer"}

MsgWakeHeard(c) ==
  /\ Running /\ ws[c] = "open"
  /\ \E wake_word \in WakeWords \cup {"<absent>"} : Commit(onWake(S, wake_word))

MsgAutoStop(c) ==
  /\ Running /\ ws[c] = "open"
  /\ \E reason \in {"silence", "timeout"} : Commit(onAutoStop(S, reason))

\* the texts of RESULT frames and the codes and messages of ERROR frames
Texts == {"hello world", ""}
WorkerErrors == {<< "UNKNOWN", "Unknown error" >>, << "AUDIO", "No input device" >>}

MsgResult(c) ==
  /\ Running /\ ws[c] = "open" /\ outputPending < MaxOutputs
  /\ \E text \in Texts : Commit(onResult(S, text))

MsgError(c) ==
  /\ Running /\ ws[c] = "open"
  /\ \E e \in WorkerErrors : Commit(onError(S, e[1], e[2]))

\* a frame arrives on the open connection of client c
Frame(c, raw, fails) ==
  /\ Running /\ ws[c] = "open"
  /\ parseType(raw) = "RESULT" => outputPending < MaxOutputs
  /\ LET r == onMessage(S, raw, fails)
     IN /\ Store(r.state) /\ Record(r.state)
        /\ dispatch' = [frame |-> raw, called |-> r.called, raised |-> r.raised]
  /\ UNCHANGED << connectCall, hk >>

\* handleOutput resolved
OutputDelivered == Running /\ outputPending > 0 /\ Commit(onResultDelivered(S))

\* handleOutput rejected: the rest of onResult is skipped
OutputFailed ==
  /\ Running /\ outputPending > 0
  /\ Commit([S EXCEPT !.outputPending = @ - 1])

(* ---- sockets ---- *)
\* the close event of the open socket of client c, closed by the peer
SocketClosed(c) ==
  /\ Running /\ ws[c] = "open"
  /\ Commit(onClose([S EXCEPT !.ws[c] = "none"]))

\* the close event of a socket that close() had closed
LocalCloseEvent(c) ==
  /\ Running /\ closeEvt[c]
  /\ Commit(onClose([S EXCEPT !.closeEvt[c] = FALSE]))

\* connectOnce: the open event; a worker must be alive to accept
AttemptOpen(l) ==
  /\ Running /\ loop[l].pc = "connect" /\ LiveWorkers # {}
  /\ Commit(loopIterate([S EXCEPT !.ws[loop[l].on] = "open"], l))

\* variant: a failed attempt ends the loop with the connection error
AttemptError_GiveUp(l) ==
  /\ Running /\ loop[l].pc = "connect"
  /\ Commit(loopExit(S, l, "connect error"))

\* connectOnce: the error event; connect(1, 0) throws, the loop sleeps 500 ms
AttemptError(l) ==
  /\ Running /\ loop[l].pc = "connect"
  /\ Commit([S EXCEPT !.loop[l].pc = "sleep"])

SleepDone(l) ==
  /\ Running /\ loop[l].pc = "sleep"
  /\ Commit(loopIterate(S, l))

(* ---- worker processes ---- *)
ChildExit(w) ==
  /\ Running /\ wd[w].procs > 0
  /\ \E code \in {0, 1} : Commit(childExited(S, w, code))

RestartTimerFires(w) ==
  /\ Running /\ wd[w].restartTimers # << >>
  /\ Commit(spawnChild([S EXCEPT !.wd[w].restartTimers = Tail(@)], w))

GraceTimeout(w) ==
  /\ Running
  /\ \E x \in wd[w].waiters :
       Commit(ResumeStop(onGraceTimeout(S, w, x.who), x.who))

(* ---- settings, shutdown ---- *)
\* settings:save with a request that sets the trigger mode, changes another
\* setting that needs a reload or none, and changes the hotkey or not
SettingsSaveWith(mode, other, hotkeyChanged) ==
  /\ Running
  /\ \/ created < MaxGen
     \/ shutdownStarted \/ sttReloadInProgress
     \/ (mode = triggerMode /\ ~other)
  /\ Commit(settingsSave(S, mode, other, hotkeyChanged))

SettingsSave ==
  \E mode \in Modes, other \in BOOLEAN, hotkeyChanged \in BOOLEAN :
    SettingsSaveWith(mode, other, hotkeyChanged)

\* settings:save with a request that keeps the trigger mode and the hotkey
SettingsSaveSameMode ==
  \E other \in BOOLEAN : SettingsSaveWith(triggerMode, other, FALSE)

BeforeQuit == Running /\ ~shutdownStarted /\ Commit(beforeQuit(S))

BridgeStopped == Running /\ shutdownPc = "bridge" /\ Commit(quitAfterBridge(S))

(* ---- connect(maxAttempts, delayMs) on its own ---- *)
\* the delays given to connect: its default and the one of the coordinator
Delays == {0, 200}

CallConnect(maxAttempts, delayMs) ==
  /\ connectCall.pc = "idle"
  /\ connectCall' = connect(maxAttempts, delayMs)
  /\ UNCHANGED << coreVars, fx, dispatch, hk >>

\* connectOnce resolved, a worker being alive to accept: connect returns
ConnectOnceOpen ==
  /\ connectCall.pc = "attempt" /\ LiveWorkers # {}
  /\ connectCall' = [connectCall EXCEPT !.opened = TRUE, !.pc = "resolved"]
  /\ UNCHANGED << coreVars, fx, dispatch, hk >>

\* connectOnce rejected: the catch block throws after the last attempt and
\* else starts the delay
ConnectOnceError ==
  /\ connectCall.pc = "attempt"
  /\ connectCall' =
       IF connectCall.attempt = connectCall.maxAttempts
       THEN [connectCall EXCEPT !.pc = "rejected"]
       ELSE [connectCall EXCEPT !.pc = "sleep", !.timer = connectCall.delayMs]
  /\ UNCHANGED << coreVars, fx, dispatch, hk >>

\* the delay is over: attempt += 1 and the for condition again
ConnectDelayDone ==
  /\ connectCall.pc = "sleep"
  /\ connectCall' =
       connectLoopHead([connectCall EXCEPT !.attempt = @ + 1, !.timer = -1])
  /\ UNCHANGED << coreVars, fx, dispatch, hk >>

(* ---- the hotkey controller on its own ---- *)
\* the controller at the start of a step
H == [hk EXCEPT !.called = "none", !.line = "none", !.threw = FALSE]

HkRegister(hotkey) ==
  /\ hk.spawned < MaxWatchers
  /\ hk' = HK_registerHoldToTalkHotkey(H, hotkey)
  /\ UNCHANGED << coreVars, fx, dispatch, connectCall >>

HkUnregisterAll ==
  /\ hk' = HK_unregisterAll(H)
  /\ UNCHANGED << coreVars, fx, dispatch, connectCall >>

HkResetState ==
  /\ hk' = HK_resetState(H)
  /\ UNCHANGED << coreVars, fx, dispatch, connectCall >>

\* the script of watcher w sees its combination go down or up and prints
WatcherWrites(w) ==
  /\ hk.pollers[w].st = "running" /\ Len(hk.pollers[w].out) < MaxLines
  /\ hk' = [H EXCEPT !.pollers[w].down = ~@,
                     !.pollers[w].out =
                        Append(@, IF hk.pollers[w].down THEN "UP" ELSE "DOWN")]
  /\ UNCHANGED << coreVars, fx, dispatch, connectCall >>

\* a line of watcher w is read from its pipe, whether or not it still runs
WatcherData(w) ==
  /\ hk.pollers[w].out # << >>
  /\ hk' = HK_onData(H, w)
  /\ UNCHANGED << coreVars, fx, dispatch, connectCall >>

\* watcher w ends by itself
WatcherDies(w) ==
  /\ hk.pollers[w].st = "running"
  /\ \E code \in {"0", "1"} :
       hk' = [H EXCEPT !.pollers[w].st = "ended", !.pollers[w].code = code,
                       !.pollers[w].down = FALSE]
  /\ UNCHANGED << coreVars, fx, dispatch, connectCall >>

\* the exit event of watcher w
WatcherExit(w) ==
  /\ hk.pollers[w].st = "ended"
  /\ hk' = HK_onExit(H, w)
  /\ UNCHANGED << coreVars, fx, dispatch, connectCall >>

(* ---- the supervisor on its own ---- *)
Tick ==
  /\ now < MaxTicks * TickMs
  /\ Commit([S EXCEPT !.now = @ + TickMs])

OwnerStop(w) ==
  /\ wd[w].created /\ wd[w].kills < MaxKills /\ ~Waiting(S, w, "owner")
  /\ Commit(stop(S, w, "owner"))

(* ======================== specifications =============================== *)
\* the exit of a worker that was asked to stop
StoppedChildExit(w) == wd[w].stopping /\ ChildExit(w)

\* Spec: sessions, the channel and supervised reloads, with a cooperative
\* worker, which exits only after stop() was called on its supervisor and
\* within the grace period.  Crashes, restarts and forced terminations are
\* the subject of SpecSupervise and SpecWatchdog, shutdown that of
\* SpecSupervise and SpecReconnect.
Next ==
  \/ KeyDown \/ KeyUp \/ AutoStopTimerFires \/ IdleTimerFires
  \/ \E c \in Gens : MsgReady(c)
  \/ \E c \in Gens : MsgWake(c)
  \/ \E c \in Gens : MsgAutoStop(c)
  \/ \E c \in Gens : MsgResult(c)
  \/ \E c \in Gens : MsgError(c)
  \/ OutputDelivered \/ OutputFailed
  \/ \E c \in Gens : SocketClosed(c)
  \/ \E c \in Gens : LocalCloseEvent(c)
  \/ \E l \in LoopIds : AttemptOpen(l)
  \/ \E l \in LoopIds : AttemptError(l)
  \/ \E l \in LoopIds : SleepDone(l)
  \/ \E w \in Gens : StoppedChildExit(w)
  \/ SettingsSave

Spec == Init /\ [][Next]_vars

\* SpecSupervise: supervisors, reload and shutdown with a worker that may
\* exit or crash at any time and may outlive the grace period; the session
\* is left idle (no trigger and no inbound frame).  The clock stands still:
\* all crashes fall into one restart window.
NextSupervise ==
  \/ \E w \in Gens : ChildExit(w)
  \/ \E w \in Gens : RestartTimerFires(w)
  \/ \E w \in Gens : GraceTimeout(w)
  \/ \E c \in Gens : SocketClosed(c)
  \/ \E c \in Gens : LocalCloseEvent(c)
  \/ \E l \in LoopIds : AttemptOpen(l)
  \/ \E l \in LoopIds : AttemptError(l)
  \/ \E l \in LoopIds : SleepDone(l)
  \/ SettingsSave \/ BeforeQuit \/ BridgeStopped

SpecSupervise == Init /\ [][NextSupervise]_vars

\* SpecReconnect: the channel, the reconnect loop, reload and shutdown, with
\* a worker that exits only when stopped, within the grace period or after
\* it; the session is left idle and the saved settings keep the trigger mode
\* and the hotkey.  Fairness: every event that is due is
\* delivered (a connection attempt settles, a sleep ends, a close event
\* arrives, a stopped worker exits or its grace timer fires, the bridge
\* stops), and the worker accepts one of infinitely many attempts.
NextReconnect ==
  \/ \E c \in Gens : SocketClosed(c)
  \/ \E c \in Gens : LocalCloseEvent(c)
  \/ \E l \in LoopIds : AttemptOpen(l)
  \/ \E l \in LoopIds : AttemptError(l)
  \/ \E l \in LoopIds : SleepDone(l)
  \/ \E w \in Gens : StoppedChildExit(w)
  \/ \E w \in Gens : GraceTimeout(w)
  \/ SettingsSaveSameMode \/ BeforeQuit \/ BridgeStopped

FairReconnect ==
  /\ WF_vars(\E l \in LoopIds : AttemptOpen(l) \/ AttemptError(l))
  /\ SF_vars(\E l \in LoopIds : AttemptOpen(l))
  /\ WF_vars(\E l \in LoopIds : SleepDone(l))
  /\ WF_vars(\E c \in Gens : LocalCloseEvent(c))
  /\ WF_vars(\E w \in Gens : StoppedChildExit(w) \/ GraceTimeout(w))
  /\ WF_vars(BridgeStopped)

SpecReconnect == Init /\ [][NextReconnect]_vars /\ FairReconnect

\* SpecWatchdog: the first supervisor alone, with the clock, and an owner
\* that calls stop() at any time.
NextWatchdog ==
  \/ Tick
  \/ ChildExit(1)
  \/ RestartTimerFires(1)
  \/ GraceTimeout(1)
  \/ OwnerStop(1)

SpecWatchdog == Init /\ [][NextWatchdog]_vars

\* SpecBringUp: startup with a worker that may crash at any time, be
\* restarted by its supervisor and be given up after the fourth crash, with
\* the clock, a peer that may close the connection, and shutdown; no
\* settings are saved.  Fairness: a connection attempt settles and a sleep
\* ends; nothing makes the worker accept.
NextBringUp ==
  \/ Tick
  \/ ChildExit(1)
  \/ RestartTimerFires(1)
  \/ GraceTimeout(1)
  \/ SocketClosed(1)
  \/ LocalCloseEvent(1)
  \/ \E l \in LoopIds : AttemptOpen(l)
  \/ \E l \in LoopIds : AttemptError(l)
  \/ \E l \in LoopIds : SleepDone(l)
  \/ BeforeQuit \/ BridgeStopped

FairBringUp ==
  /\ WF_vars(\E l \in LoopIds : AttemptOpen(l) \/ AttemptError(l))
  /\ WF_vars(\E l \in LoopIds : SleepDone(l))

SpecBringUp == Init /\ [][NextBringUp]_vars /\ FairBringUp

\* SpecConnect: one call of connect(maxAttempts, delayMs), for every
\* maxAttempts from 0 to MaxAttempts, with a worker that may crash, be
\* restarted and be given up.
NextConnect ==
  \/ \E n \in 0..MaxAttempts, d \in Delays : CallConnect(n, d)
  \/ ConnectOnceOpen
  \/ ConnectOnceError
  \/ ConnectDelayDone
  \/ ChildExit(1)
  \/ RestartTimerFires(1)

SpecConnect == Init /\ [][NextConnect]_vars

\* SpecDispatch: the message listener of the first client, given frames of
\* every form, with handlers that may raise; sessions are started by WAKE
\* frames and ended by frames, by the auto-stop timer or by the peer's
\* close; no hotkey, no reload and no shutdown.
NextDispatch ==
  \/ \E raw \in Frames, fails \in BOOLEAN : Frame(1, raw, fails)
  \/ AutoStopTimerFires
  \/ OutputDelivered \/ OutputFailed
  \/ SocketClosed(1)
  \/ \E l \in LoopIds : AttemptOpen(l)
  \/ \E l \in LoopIds : AttemptError(l)
  \/ \E l \in LoopIds : SleepDone(l)

SpecDispatch == Init /\ [][NextDispatch]_vars

\* SpecHotkey: a hotkey controller on its own, with an owner that registers
\* hotkey strings of every kind, unregisters and resets at any time, and
\* watchers that print edges, end by themselves, and whose lines and exit
\* events arrive at any later time.
InitHotkey == Init /\ triggerMode = "hold-to-talk"

NextHotkey ==
  \/ \E hotkey \in Hotkeys : HkRegister(hotkey)
  \/ HkUnregisterAll
  \/ HkResetState
  \/ \E w \in Watchers : WatcherWrites(w)
  \/ \E w \in Watchers : WatcherData(w)
  \/ \E w \in Watchers : WatcherDies(w)
  \/ \E w \in Watchers : WatcherExit(w)

SpecHotkey == InitHotkey /\ [][NextHotkey]_vars

\* SpecRegister: the registrations of a hotkey controller: an owner that
\* registers hotkey strings of every kind, unregisters and resets at any
\* time, and watchers that end by themselves and whose exit events arrive at
\* any later time; what the watchers print is left to SpecHotkey.
NextRegister ==
  \/ \E hotkey \in Hotkeys : HkRegister(hotkey)
  \/ HkUnregisterAll
  \/ HkResetState
  \/ \E w \in Watchers : WatcherDies(w)
  \/ \E w \in Watchers : WatcherExit(w)

SpecRegister == InitHotkey /\ [][NextRegister]_vars

\* SpecSession: the sessions of one client and one worker under every
\* trigger mode and a configuration file of any content: key edges, frames
\* of the five kinds, the auto-stop and status timers, deliveries that take
\* time or fail, and a peer that closes the connection, which the reconnect
\* loop opens again; the calls of each step to the outside are recorded.
\* No settings are saved and there is no shutdown.
\* the configurations: a maximum duration below, within and above the
\* limits, two languages, the two output modes
Configs ==
  [wakeRecordMs : {600, 5000, 45000}, transcriptionLanguage : {"auto", "de"},
   outputMode : {"clipboard-only", "auto-paste"}, wakeWord : {"hey promptflux"}]

InitSession ==
  /\ InitCore
  /\ appConfig \in Configs
  /\ fx = [on |-> TRUE, log |-> << >>,
           spawned |-> [g \in Gens |-> IF g = 1 THEN createWatchdog(triggerMode, appConfig)
                                        ELSE NoSpawn],
           started |-> FALSE]

NextSession ==
  \/ KeyDown \/ KeyUp \/ AutoStopTimerFires \/ IdleTimerFires
  \/ MsgReady(1) \/ MsgWake(1) \/ MsgAutoStop(1) \/ MsgResult(1) \/ MsgError(1)
  \/ OutputDelivered \/ OutputFailed
  \/ SocketClosed(1)
  \/ \E l \in LoopIds : AttemptOpen(l)
  \/ \E l \in LoopIds : AttemptError(l)
  \/ \E l \in LoopIds : SleepDone(l)

SpecSession == InitSession /\ [][NextSession]_vars

(* ============================ properties =============================== *)
\* SpecSettings: settings saves with their requests spelled out, WAKE
\* frames with the phrase the worker reports, supervised reloads and
\* shutdown, next to the trigger and channel events; the worker exits only
\* when stopped and within the grace period, and the effect log is on.
SaveRequests ==
  [triggerMode : {"wake-word", "hold-to-talk"}, wakeWord : WakeWords,
   transcriptionLanguage : {"auto"}, wakeRecordMs : {5000},
   outputMode : {"clipboard-only"}, hotkey : {"same", "invalid"},
   other : {FALSE}]

SettingsSaveRequest ==
  /\ Running
  /\ \E next \in SaveRequests :
       /\ \/ created < MaxGen
          \/ shutdownStarted \/ sttReloadInProgress
          \/ next.hotkey = "invalid" \/ ~restartRequired(S, next)
       /\ Commit(settingsSaveRequest(S, next))

InitSettings ==
  /\ InitCore
  /\ triggerMode = "wake-word"
  /\ appConfig = DefaultConfig
  /\ fx = [on |-> TRUE, log |-> << >>,
           spawned |-> [g \in Gens |-> IF g = 1 THEN createWatchdog(triggerMode, appConfig)
                                        ELSE NoSpawn],
           started |-> FALSE]

NextSettings ==
  \/ \E c \in Gens : MsgWakeHeard(c)
  \/ \E c \in Gens : LocalCloseEvent(c)
  \/ \E l \in LoopIds : AttemptOpen(l)
  \/ \E l \in LoopIds : AttemptError(l)
  \/ \E l \in LoopIds : SleepDone(l)
  \/ \E w \in Gens : StoppedChildExit(w)
  \/ SettingsSaveRequest \/ BeforeQuit

SpecSettings == InitSettings /\ [][NextSettings]_vars

StartSent == sentParity' # sentParity /\ lastCmd' = "START"
StopSent == sentParity' # sentParity /\ lastCmd' = "STOP"

\* a trigger that asks for a session: the key combination goes down, or a
\* WAKE frame arrives
StartEvent == KeyDown \/ \E c \in Gens : MsgWake(c)

\* C1: at most one session is active at a time: a START is sent only while
\* no session is active, and a start event that arrives while the active
\* flag is set sends no command and leaves the flag, the auto-stop timer and
\* the status as they are.
C1_StartIgnoredWhileActive ==
  [][ /\ StartSent => (~recordingActive /\ recordingActive')
      /\ (recordingActive /\ StartEvent) =>
           UNCHANGED << recordingActive, wakeAutoStopTimer, status, lastCmd,
                        prevCmd, lastEvent, sentParity >> ]_vars

\* a start event has just been ignored because a session is active
C1_Witness ==
  earlyReturn = "recordingActive" /\ recordingActive /\ lastEvent = "START"

\* C2: a STOP is sent only for an active session whose START is the last
\* thing that happened to it: the last command sent is that START, and no
\* STOP, RESULT, ERROR or reload has ended the session since.  So STOPs and
\* STARTs alternate, and there are never more STOPs than STARTs.
C2_StopOnlyAfterStart ==
  [][ StopSent => /\ recordingActive /\ ~recordingActive'
                  /\ lastEvent = "START" /\ lastCmd = "START" ]_vars

\* a STOP has been sent for the session that the last START began
C2_Witness ==
  lastCmd = "STOP" /\ prevCmd = "START" /\ status = "transcribing"

\* C3, as the code has it: between two STARTs the session of the first has
\* ended, by a STOP or, with no STOP sent, by a RESULT frame, an ERROR frame,
\* a stop that found the channel disconnected, or a supervised reload.
C3_StartAfterSessionEnd ==
  [][ StartSent =>
        lastEvent \in {"none", "STOP", "RESULT", "ERROR", "DROP", "RELOAD"} ]_vars

\* C3, as stated: between two STARTs a STOP is sent
C3_StopBetweenStarts ==
  [][ StartSent => lastCmd # "START" ]_vars

\* two STARTs in a row, the session of the first ended without a STOP
C3_Witness ==
  /\ lastCmd = "START" /\ prevCmd = "START" /\ lastEvent = "START"
  /\ recordingActive

\* the worker processes alive, over all supervisors ever created
TotalProcs ==
  LET sum[w \in 0..MaxGen] == IF w = 0 THEN 0 ELSE sum[w - 1] + wd[w].procs
  IN sum[MaxGen]

\* C4, as stated: at most one worker process is alive at any time
C4_OneLiveWorker == TotalProcs <= 1

\* the supervisor w handles a crash in this step
Crashed(w) == Len(wd'[w].crashTimes) > Len(wd[w].crashTimes)

\* the crashes of supervisor w, the one of this step included, that are at
\* most 30 s old when this step is taken
RecentCrashes(w) ==
  {i \in 1..Len(wd'[w].crashTimes) :
     now - wd'[w].crashTimes[i] <= RestartWindowMs}

\* C5: each of the first three crashes within 30 s schedules exactly one
\* restart, 500 ms later, and calls no fatal callback; the fourth calls the
\* fatal callback once and schedules no restart; once the fatal callback was
\* called the supervisor has no child, no pending restart, and spawns
\* nothing any more.
C5_RestartLimit ==
  [][ \A w \in Gens :
        /\ (Crashed(w) /\ Cardinality(RecentCrashes(w)) <= RestartLimit) =>
             /\ wd'[w].restartTimers = Append(wd[w].restartTimers, RestartDelayMs)
             /\ wd'[w].fatal = wd[w].fatal
        /\ (Crashed(w) /\ Cardinality(RecentCrashes(w)) > RestartLimit) =>
             /\ Cardinality(RecentCrashes(w)) = RestartLimit + 1
             /\ wd'[w].restartTimers = << >>
             /\ wd'[w].fatal = wd[w].fatal + 1
        /\ wd[w].fatal > 0 =>
             /\ wd'[w].spawns = wd[w].spawns
             /\ wd'[w].restartTimers = << >>
             /\ ~wd'[w].child ]_vars

\* the fourth crash within 30 s has been handled
C5_Witness ==
  /\ wd[1].fatal = 1 /\ wd[1].spawns = RestartLimit + 1
  /\ Len(wd[1].restartTimestamps) = RestartLimit + 1
  /\ wd[1].restartTimers = << >> /\ status = "error"

\* C6: after every crash the ledger holds exactly the times of the crashes
\* at most 30 s old, the current one included, in the order they happened,
\* and the crash is restarted iff these are at most three; a crash that
\* comes more than 30 s after all earlier ones leaves a ledger of one entry.
C6_LedgerWindow ==
  [][ \A w \in Gens : Crashed(w) =>
        LET Recent(x) == now - x <= RestartWindowMs
            old == Len(wd[w].crashTimes)
        IN /\ wd'[w].restartTimestamps = SelectSeq(wd'[w].crashTimes, Recent)
           /\ (Len(wd'[w].restartTimers) > Len(wd[w].restartTimers))
                <=> (Cardinality(RecentCrashes(w)) <= RestartLimit)
           /\ (\A i \in 1..old : now - wd[w].crashTimes[i] > RestartWindowMs)
                => (Len(wd'[w].restartTimestamps) = 1
                    /\ Len(wd'[w].restartTimers) > Len(wd[w].restartTimers)) ]_vars

\* three crashes, the worker then runs for more than 30 s and crashes again:
\* the ledger holds the last crash only and a restart is scheduled
C6_Witness ==
  /\ Len(wd[1].crashTimes) = RestartLimit + 1
  /\ Len(wd[1].restartTimestamps) = 1
  /\ wd[1].restartTimestamps[1] - wd[1].crashTimes[RestartLimit] > RestartWindowMs
  /\ wd[1].restartTimers # << >> /\ wd[1].fatal = 0

\* C7, as stated: once stop() was called on a supervisor it spawns no worker
C7_NoSpawnAfterStop ==
  [][ \A w \in Gens : wd[w].stopping => wd'[w].spawns = wd[w].spawns ]_vars

\* C8: a stop() call leaves the intentional-stop flag set; a forced
\* termination is requested only by the grace timer of a stop() call that is
\* still waiting, for a child that has not exited, once per call, and that
\* call resolves with it; a waiting call resolves only on the child's exit
\* or with its forced request; the exit of a child while the flag is set
\* schedules no restart, records no crash and calls no fatal callback.
C8_StopProtocol ==
  [][ \A w \in Gens :
        /\ wd'[w].waiters # wd[w].waiters =>
             \/ wd'[w].waiters = {}
             \/ wd'[w].stopping
        /\ wd'[w].waiters # {} => (wd'[w].stopping /\ wd'[w].procs > 0)
        /\ wd'[w].kills # wd[w].kills =>
             /\ wd'[w].kills = wd[w].kills + 1
             /\ wd[w].stopping /\ wd[w].procs > 0
             /\ \E x \in wd[w].waiters :
                  /\ x.graceMs = StopGraceMs
                  /\ wd'[w].waiters = wd[w].waiters \ {x}
        /\ (wd[w].waiters \ wd'[w].waiters) # {} =>
             \/ wd'[w].procs < wd[w].procs
             \/ wd'[w].kills = wd[w].kills + 1
        /\ (wd[w].stopping /\ wd'[w].procs < wd[w].procs) =>
             /\ wd'[w].restartTimers = wd[w].restartTimers
             /\ wd'[w].restartTimestamps = wd[w].restartTimestamps
             /\ wd'[w].fatal = wd[w].fatal
             /\ wd'[w].waiters = {} ]_vars

\* a stop() call resolved with its forced request, and the child exited
\* afterwards with a failure code
C8_Witness ==
  /\ wd[1].stopping /\ wd[1].kills = 1 /\ wd[1].procs = 0
  /\ wd[1].waiters = {} /\ wd[1].restartTimers = << >> /\ wd[1].fatal = 0
  /\ wd[1].crashTimes = << >>

RunningLoops == {l \in LoopIds : loop[l].pc # "off"}

\* C9: at most one ensureSocketConnected loop runs at any time, and the
\* single-flight flag is set exactly while one runs.
C9_SingleReconnectLoop ==
  /\ Cardinality(RunningLoops) <= 1
  /\ reconnectLoopRunning <=> RunningLoops # {}

\* ensureSocketConnected has just been called while a loop was running, and
\* returned at once
C9_Witness ==
  /\ earlyReturn = "reconnectLoopRunning"
  /\ Cardinality(RunningLoops) = 1 /\ reconnectLoopRunning

Connected == isConnected(S, sttClient)

\* the established connection of the current client is closed by the peer
\* while the coordinator is not shutting down
ConnectionDropped ==
  /\ Connected /\ ~shutdownStarted /\ ~shutdownStarted'
  /\ sttClient' = sttClient /\ ws'[sttClient] = "none"

\* C10: when the established connection drops while the coordinator is not
\* shutting down, the status becomes "error" and a loop is attempting to
\* connect the client; as long as the client is disconnected, shutdown has
\* not started and no reload is replacing the client, a loop is running,
\* whatever number of attempts have failed; and from every state in which
\* the channel is not connected, a state follows in which it is connected or
\* shutdown has started, provided the worker accepts one of infinitely many
\* attempts.
C10_ReconnectUntilConnected ==
  /\ [][ ConnectionDropped =>
           /\ status' = "error"
           /\ \E l \in LoopIds :
                loop'[l].pc = "connect" /\ loop'[l].on = sttClient ]_vars
  /\ []((sttClient # 0 /\ ~Connected /\ ~shutdownStarted /\ ~sttReloadInProgress)
          => reconnectLoopRunning)
  /\ (~Connected ~> (Connected \/ shutdownStarted))

\* the connection made at startup has dropped, and at least one attempt to
\* connect again has failed: the loop sleeps before the next one
C10_Witness ==
  /\ bootPc = "done" /\ created = 1 /\ ~shutdownStarted /\ ~Connected
  /\ status = "error"
  /\ \E l \in LoopIds : loop[l].pc = "sleep" /\ loop[l].awaiter = "none"

\* the clients whose connection is open; its message handlers are attached
OpenConnections == {c \in Gens : ws[c] = "open"}

\* C11, as stated: at most one connection is open at any time: while the
\* connection of one client is open, no connection of a client created
\* earlier is still open
C11_OneOpenConnection == Cardinality(OpenConnections) <= 1

\* a command is put on a connection in this step
CommandSent == sentParity' # sentParity

\* C12: a command is transmitted only by a step that finds the channel
\* connected; a command issued while the channel is not connected (the QUIT
\* of before-quit) changes nothing, and it is not retained: it is not
\* transmitted by any later step either, whatever connection opens later.
C12_SendOnlyWhenConnected ==
  [][ /\ CommandSent => Connected
      /\ (BeforeQuit /\ ~Connected) =>
           UNCHANGED << lastCmd, prevCmd, lastEvent, sentParity, ws >>
      /\ (shutdownStarted /\ lastCmd # "QUIT") => lastCmd' # "QUIT" ]_vars

\* QUIT was issued while the channel was disconnected, and a connection
\* attempt that was in flight has opened afterwards
C12_Witness ==
  /\ shutdownStarted /\ lastCmd = "none" /\ sentParity = 0
  /\ OpenConnections # {}

\* C13, as stated: the close handler is not invoked for a close that the
\* local close() caused: the close event of such a socket leaves the status
\* and the reconnect loops as they are
C13_NoHandlerOnLocalClose ==
  [][ \A c \in Gens : LocalCloseEvent(c) =>
        UNCHANGED << status, loop, reconnectLoopRunning >> ]_vars

\* the loop that bootstrap awaits
BootLoops == {l \in LoopIds : loop[l].awaiter = "bootstrap"}

C15_ResolvesOnlyWhenOpened ==
  connectCall.pc = "resolved" => connectCall.opened

Kinds == {"READY", "WAKE", "AUTO_STOP", "RESULT", "ERROR"}

\* the frame is not a frame of one of the five kinds
Unrecognised(raw) ==
  raw.form \in {"malformed", "truncated"} \/ parseType(raw) \notin Kinds

\* C16: in every state, a frame that is malformed or of no recognised kind
\* invokes no handler, raises nothing and leaves the state as it is, and a
\* frame of a recognised kind invokes exactly the handler of that kind; and
\* the step in which the listener is given an unrecognised frame changes no
\* variable of the coordinator, its clients and its supervisors.
C16_DispatchByKind ==
  /\ [](\A raw \in Frames :
          LET r == onMessage(S, raw, FALSE)
              kind == parseType(raw)
          IN /\ Unrecognised(raw) =>
                  (r.state = S /\ r.called = << >> /\ r.raised = "none")
             /\ kind = "READY" => (r.called = << "onReady" >> /\ r.state = onReady(S))
             /\ kind = "WAKE" => (r.called = << "onWake" >> /\ r.state = onWake(S, "<absent>"))
             /\ kind = "AUTO_STOP" =>
                  /\ r.called = << "onAutoStop" >>
                  /\ r.state = onAutoStop(S, raw.reason)
             /\ kind = "RESULT" => (r.called = << "onResult" >> /\ r.state = onResult(S, ""))
             /\ kind = "ERROR" =>
                  /\ r.called = << "onError" >>
                  /\ r.state = onError(S, "UNKNOWN", "Unknown error"))
  /\ [][ (dispatch' # dispatch /\ Unrecognised(dispatch'.frame)) =>
           /\ Store(S)
           /\ dispatch'.called = << >> /\ dispatch'.raised = "none" ]_vars

\* a malformed frame that names a kind has just been dropped while a session
\* was recording
C16_Witness ==
  /\ dispatch.frame.form = "malformed" /\ dispatch.frame.type = "RESULT"
  /\ dispatch.called = << >> /\ dispatch.raised = "none"
  /\ recordingActive /\ status = "recording"

\* C17, as stated: what a message handler raises is caught by the channel:
\* nothing leaves the message listener and no promise it dropped is rejected
C17_HandlerFailureCaught == dispatch.raised = "none"

\* C18: onStart is called only for a DOWN line and only when the last of
\* the calls onStart, onStop, resetState, unregisterAll is not onStart;
\* onStop is called only for an UP line and only when that last call is
\* onStart; a DOWN line read when no start is outstanding calls onStart and
\* an UP line read when one is outstanding calls onStop, each line calling
\* at most one handler; the active flag is set exactly while a start is
\* outstanding; and a watcher prints DOWN only on a rising edge and UP only
\* on a falling edge of its combination.
C18_EdgesAlternate ==
  /\ [](hk.active <=> hk.last = "onStart")
  /\ [][ /\ hk'.called = "onStart" =>
              (hk.last # "onStart" /\ hk'.line = "DOWN" /\ hk'.last = "onStart")
         /\ hk'.called = "onStop" =>
              (hk.last = "onStart" /\ hk'.line = "UP" /\ hk'.last = "onStop")
         /\ (hk'.line = "DOWN" /\ hk.last # "onStart") => hk'.called = "onStart"
         /\ (hk'.line = "UP" /\ hk.last = "onStart") => hk'.called = "onStop"
         /\ \A w \in Watchers :
              Len(hk'.pollers[w].out) > Len(hk.pollers[w].out) =>
                /\ hk'.pollers[w].down # hk.pollers[w].down
                /\ hk'.pollers[w].out[Len(hk'.pollers[w].out)] =
                     (IF hk'.pollers[w].down THEN "DOWN" ELSE "UP") ]_vars

\* the combination went down, onStart was called, resetState was called, and
\* the UP line of the release has just been read and has called no handler
C18_Witness ==
  /\ hk.line = "UP" /\ hk.called = "none" /\ hk.last = "resetState"
  /\ hk.reg = "registered" /\ ~hk.active

\* C19, as stated: after unregisterAll has returned and until the next
\* registration no watcher process started by the controller is running
C19_NoPollerAfterUnregister ==
  hk.reg = "unregistered" =>
    \A w \in Watchers : hk.pollers[w].st # "running"

SupportedTokens == {"Ctrl", " control"}

\* every part of the hotkey string is blank or a supported token, and one
\* is a token
ValidHotkey(hotkey) ==
  /\ \E i \in 1..Len(hotkey) : hotkey[i] \in SupportedTokens
  /\ \A i \in 1..Len(hotkey) : hotkey[i] \in SupportedTokens \cup {""}

\* C20: registerHoldToTalkHotkey with a hotkey string that has an
\* unsupported token, or no token, throws, starts no watcher, leaves the
\* controller without a watcher and calls no handler; every watcher ever
\* started polls the key codes of a valid hotkey string, so no handler call
\* comes from an invalid one.
C20_InvalidHotkeyRejected ==
  /\ [](\A w \in Watchers :
          hk.pollers[w].st # "none" =>
            \E hotkey \in Hotkeys :
              /\ ValidHotkey(hotkey)
              /\ hk.pollers[w].keys = parseHotkey(hotkey).keyCodes
              /\ hk.pollers[w].keys # {} /\ hk.pollers[w].keys = {17})
  /\ [][ \A hotkey \in Hotkeys :
           (HkRegister(hotkey) /\ ~ValidHotkey(hotkey)) =>
             /\ hk'.threw /\ hk'.reg = "failed"
             /\ hk'.spawned = hk.spawned /\ hk'.watcher = 0
             /\ hk'.called = "none"
             /\ \A w \in Watchers : hk'.pollers[w].st # "running"
                                      \/ hk.pollers[w].st = "running" ]_vars

\* a hotkey was registered, then one with an unsupported token: the call has
\* thrown, the first watcher was killed and no second one exists
C20_Witness ==
  /\ hk.threw /\ hk.reg = "failed" /\ hk.watcher = 0 /\ hk.spawned = 1
  /\ hk.pollers[1].killed /\ hk.pollers[2].st = "none"

\* C21, as stated, in part: in press-to-talk mode with the channel
\* connected, each release of the key combination does exactly one thing: it
\* sends START when no session is active and STOP when one is
C21_EachReleaseActs ==
  [][ (KeyUp /\ triggerMode = "press-to-talk" /\ Connected) =>
        IF recordingActive THEN StopSent ELSE StartSent ]_vars

\* an event that asks for a session while none is active: the key
\* combination goes down in a mode other than press-to-talk, it is released
\* in press-to-talk mode, or a WAKE frame arrives in wake-word mode
StartRequest ==
  /\ ~recordingActive
  /\ \/ KeyDown /\ triggerMode # "press-to-talk"
     \/ KeyUp /\ triggerMode = "press-to-talk" /\ hkActive
     \/ (\E c \in Gens : MsgWake(c)) /\ triggerMode = "wake-word"

NotConnectedShown ==
  [op |-> "setRendererTranscript",
   arg |-> << "STT service is not connected.", "error" >>, ms |-> 0]

\* C22: a start event that arrives while no session is active and the
\* channel is not connected sends no command, leaves the session inactive,
\* arms no auto-stop timer, and sets the status to "error", not to
\* "recording"; all it calls is the display of the not-connected message.
C22_StartRejectedWhenDisconnected ==
  [][ (StartRequest /\ ~Connected) =>
        /\ UNCHANGED << lastCmd, prevCmd, sentParity >>
        /\ ~recordingActive'
        /\ autoStopTimers' = << >> /\ wakeAutoStopTimer' \notin {"wake", "tap"}
        /\ status' = "error"
        /\ fx'.log = << NotConnectedShown >> ]_vars

\* the connection made at startup was closed by the peer, and the first
\* press of the key combination has just been rejected
C22_Witness ==
  /\ ~Connected /\ bootPc = "done" /\ watcherDown /\ hkActive
  /\ triggerMode = "hold-to-talk" /\ lastCmd = "none" /\ ~recordingActive
  /\ status = "error" /\ fx.log = << NotConnectedShown >>

\* the bound of the claim: min(30000, max(1200, configured maximum duration))
ClaimedBound(configured) ==
  LET atLeast == IF configured < 1200 THEN 1200 ELSE configured
  IN IF atLeast > 30000 THEN 30000 ELSE atLeast

TimerArmed(reason) ==
  [op |-> "setTimeout", arg |-> << "stopRecording", reason >>,
   ms |-> ClaimedBound(appConfig.wakeRecordMs)]

InLog(log, e) == \E i \in 1..Len(log) : log[i] = e

\* C23: every pending auto-stop timer was armed with the delay
\* B = min(30000, max(1200, appConfig.wakeRecordMs)); the step that sends
\* START for a WAKE frame or for a tap arms exactly one timer, with delay B,
\* whose callback stops with the reason wake-timeout or tap-timeout, and the
\* step that sends START for a press of the hotkey arms none; when a pending
\* timer fires, the session is still active, the step ends it and leaves no
\* timer pending, and with the channel connected it shows the text of the
\* timeout reason and sends one STOP with the configured language (with the
\* channel disconnected it sends nothing and reports the error).
C23_AutoStopTimer ==
  /\ [](\A i \in 1..Len(autoStopTimers) :
          /\ autoStopTimers[i].delayMs = ClaimedBound(appConfig.wakeRecordMs)
          /\ autoStopTimers[i].delayMs \in 1200..30000
          /\ autoStopTimers[i].reason \in {"wake", "tap"})
  /\ [][ /\ (StartSent /\ \E c \in Gens : MsgWake(c)) =>
              /\ autoStopTimers' = << [reason |-> "wake",
                                       delayMs |-> ClaimedBound(appConfig.wakeRecordMs)] >>
              /\ InLog(fx'.log, TimerArmed("wake-timeout"))
         /\ (StartSent /\ KeyUp) =>
              /\ autoStopTimers' = << [reason |-> "tap",
                                       delayMs |-> ClaimedBound(appConfig.wakeRecordMs)] >>
              /\ InLog(fx'.log, TimerArmed("tap-timeout"))
         /\ (StartSent /\ KeyDown) =>
              /\ autoStopTimers' = << >> /\ wakeAutoStopTimer' = "none"
              /\ \A i \in 1..Len(fx'.log) : fx'.log[i].op # "setTimeout"
         /\ AutoStopTimerFires =>
              /\ recordingActive /\ ~recordingActive'
              /\ autoStopTimers' = << >> /\ wakeAutoStopTimer' = "none"
              /\ IF Connected
                 THEN /\ StopSent /\ prevCmd' = "START" /\ status' = "transcribing"
                      /\ fx'.log =
                           << [op |-> "setRendererTranscript",
                               arg |-> << IF autoStopTimers[1].reason = "tap"
                                          THEN "Tap-to-talk max duration reached. Transcribing..."
                                          ELSE "Wake max duration reached. Transcribing...",
                                          "transcribing" >>,
                               ms |-> 0],
                              [op |-> "ws.send",
                               arg |-> << "STOP", "language",
                                          appConfig.transcriptionLanguage >>,
                               ms |-> 0] >>
                 ELSE /\ UNCHANGED << lastCmd, prevCmd, sentParity >>
                      /\ status' = "error" ]_vars

\* with a configured maximum duration above the upper limit, a session that
\* a tap had armed has just been stopped by its timer
C23_Witness ==
  /\ appConfig.wakeRecordMs > MaxWakeTimeoutMs /\ triggerMode = "press-to-talk"
  /\ lastCmd = "STOP" /\ prevCmd = "START" /\ status = "transcribing"
  /\ ~recordingActive /\ autoStopTimers = << >>
  /\ Len(fx.log) = 2
  /\ fx.log[1].arg[1] = "Tap-to-talk max duration reached. Transcribing..."

\* C24: in every reachable state at most one auto-stop timer is pending, and
\* a pending timer is the one the handle refers to and its session is
\* active; every step that ends an active session (manual stop, AUTO_STOP,
\* timeout, RESULT, ERROR, reload) leaves no timer pending and the handle
\* cleared; a timer stays pending only across steps that send no START and
\* keep the session active, so a timer that fires was armed by the last
\* START and its session is the active one.
C24_TimerClearedWithSession ==
  /\ [](/\ Len(autoStopTimers) <= 1
        /\ autoStopTimers # << >> =>
             /\ recordingActive
             /\ wakeAutoStopTimer = autoStopTimers[1].reason)
  /\ [][ /\ (recordingActive /\ ~recordingActive') =>
              autoStopTimers' = << >> /\ wakeAutoStopTimer' = "none"
         /\ (autoStopTimers # << >> /\ autoStopTimers' # << >>) =>
              /\ autoStopTimers' = autoStopTimers
              /\ ~StartSent /\ recordingActive' ]_vars

\* a reload has ended a session that a tap had started, and no timer is
\* pending
C24_Witness ==
  /\ sttReloadInProgress /\ triggerMode = "press-to-talk"
  /\ lastCmd = "START" /\ ~recordingActive
  /\ autoStopTimers = << >> /\ wakeAutoStopTimer = "none"

\* STOP was the last command sent, the status shown is still that of the
\* stop, and no RESULT of the session is being handled
Transcribing ==
  /\ lastCmd = "STOP" /\ status = "transcribing"
  /\ ~recordingActive /\ outputPending = 0

\* C25: a start trigger that arrives while the session is transcribing,
\* after STOP was sent and before the worker's RESULT or ERROR was handled,
\* sends no START and starts no session.
C25_NoStartWhileTranscribing ==
  [][ Transcribing => ~StartSent /\ ~recordingActive' ]_vars

\* the frames of the type that the step has sent
Sends(log, type) ==
  {i \in 1..Len(log) : log[i].op = "ws.send" /\ log[i].arg[1] = type}

\* the coordinator's variables without the history of early returns
programState ==
  << triggerMode, recordingActive, wakeAutoStopTimer, status, idleTimer,
     shutdownStarted, sttReloadInProgress, reconnectLoopRunning, sttClient,
     sttWatchdog, created, ws, closeEvt, loop, bootPc, reloadPc, shutdownPc,
     outputPending, hkWatcher, hkActive, watcherDown, wd, now, lastCmd,
     prevCmd, sentParity, appConfig, autoStopTimers >>

WakeStart == [op |-> "ws.send", arg |-> << "START", "reason", "wake" >>, ms |-> 0]

C27_HoldPressStartsReleaseStops ==
  [][ (triggerMode = "hold-to-talk" /\ Connected) =>
        /\ (KeyDown /\ ~recordingActive) =>
              /\ StartSent /\ Cardinality(Sends(fx'.log, "START")) = 1
        /\ (KeyUp /\ recordingActive /\ lastCmd = "START") =>
              /\ StopSent
              /\ InLog(fx'.log, [op |-> "ws.send",
                                 arg |-> << "STOP", "language",
                                            appConfig.transcriptionLanguage >>,
                                 ms |-> 0])
              /\ Cardinality(Sends(fx'.log, "STOP")) = 1 ]_vars

\* what onResult does once the delivery has settled
SuccessReported ==
  << [op |-> "setTimeout", arg |-> << "setRendererStatus", "idle" >>, ms |-> 1500],
     [op |-> "hotkeyController.resetState", arg |-> << >>, ms |-> 0] >>

Delivery(text) ==
  [op |-> "handleOutput", arg |-> << text, appConfig.outputMode >>, ms |-> 0]

\* C28: the step that handles a RESULT frame clears the active flag and the
\* timer and calls handleOutput exactly once, with the text of the frame and
\* before anything else; when the delivery has settled, in the same step
\* with the output mode clipboard-only and in the step of its completion
\* with auto-paste, the status success is shown, a timer of 1500 ms for the
\* status idle is armed and the hotkey controller's state is reset, with no
\* second call of handleOutput; the step of that timer shows the status
\* idle.
C28_ResultDeliveredOnce ==
  [][ /\ MsgResult(1) =>
           /\ ~recordingActive'
           /\ autoStopTimers' = << >> /\ wakeAutoStopTimer' = "none"
           /\ \E text \in Texts :
                fx'.log = << Delivery(text) >> \o
                          (IF appConfig.outputMode = "clipboard-only"
                           THEN SuccessReported ELSE << >>)
           /\ IF appConfig.outputMode = "clipboard-only"
              THEN status' = "success" /\ idleTimer' /\ ~hkActive'
              ELSE outputPending' = outputPending + 1
      /\ OutputDelivered =>
           /\ fx'.log = SuccessReported
           /\ status' = "success" /\ idleTimer' /\ ~hkActive'
           /\ outputPending' = outputPending - 1
      /\ IdleTimerFires => status' = "idle" /\ fx'.log = << >> ]_vars

\* the RESULT of a stopped session has been delivered and reported in one
\* step
C28_Witness ==
  /\ appConfig.outputMode = "clipboard-only" /\ lastCmd = "STOP"
  /\ fx.log = << Delivery("hello world") >> \o SuccessReported
  /\ status = "success" /\ idleTimer /\ ~recordingActive /\ ~hkActive

\* what onError does with the code and the message of the frame
ErrorReported(e) ==
  << [op |-> "setRendererTranscript", arg |-> << e[1], e[2], "error" >>, ms |-> 0],
     [op |-> "setTimeout", arg |-> << "setRendererStatus", "idle" >>, ms |-> 3000],
     [op |-> "hotkeyController.resetState", arg |-> << >>, ms |-> 0] >>

\* C29: the step that handles an ERROR frame clears the active flag, leaves
\* no auto-stop timer pending, shows the code and the message of the frame
\* and the status error, arms a timer of 3000 ms for the status idle and
\* resets the hotkey controller's state, and calls neither handleOutput nor
\* send; it leaves the deliveries under way as they are; the step of the
\* timer shows the status idle, with no session active unless a new one was
\* started in between.
C29_ErrorReported ==
  [][ /\ MsgError(1) =>
           /\ ~recordingActive'
           /\ autoStopTimers' = << >> /\ wakeAutoStopTimer' = "none"
           /\ \E e \in WorkerErrors : fx'.log = ErrorReported(e)
           /\ status' = "error" /\ idleTimer' /\ ~hkActive'
           /\ UNCHANGED << lastCmd, prevCmd, sentParity, outputPending >>
      /\ (IdleTimerFires /\ status = "error") =>
           /\ status' = "idle"
           /\ UNCHANGED << recordingActive, autoStopTimers, lastCmd, sentParity >> ]_vars

\* the ERROR of a session that a WAKE frame had started has been reported
C29_Witness ==
  /\ fx.log = ErrorReported(<< "AUDIO", "No input device" >>)
  /\ triggerMode = "wake-word" /\ lastCmd = "START"
  /\ status = "error" /\ idleTimer /\ ~recordingActive /\ ~hkActive
  /\ autoStopTimers = << >>

\* C30: a transition runs to completion before another event is handled:
\* while a RESULT handler has cleared the active flag and called
\* handleOutput but has not yet reported success and reset the hotkey
\* controller, the only step taken is the completion of that handler.
C30_ResultHandlingAtomic ==
  [][ outputPending > 0 => (OutputDelivered \/ OutputFailed) ]_vars

\* the step called restartSttRuntime
ReloadRequested ==
  InLog(fx'.log, [op |-> "restartSttRuntime", arg |-> << "settings:save" >>, ms |-> 0])

\* C31: a reload is in progress exactly while the flag is set; a call of
\* restartSttRuntime made while the flag is set or after shutdown has
\* started returns at once: it closes no channel, stops and creates no
\* supervisor, spawns no worker, starts no reconnect loop and shows
\* nothing; a call made otherwise sets the flag or has run the whole
\* sequence in its step; every supervisor is created by a reload, one at a
\* time and with one worker spawned; and the step in which the reload ends
\* clears the flag.
C31_SingleReload ==
  /\ [](sttReloadInProgress <=> reloadPc # "idle")
  /\ [][ /\ (ReloadRequested /\ (sttReloadInProgress \/ shutdownStarted)) =>
              /\ UNCHANGED << ws, closeEvt, wd, sttClient, sttWatchdog, created,
                              loop, reconnectLoopRunning, sttReloadInProgress,
                              reloadPc, status, recordingActive >>
              /\ fx'.spawned = fx.spawned
              /\ fx'.log = << [op |-> "saveConfig", arg |-> << >>, ms |-> 0],
                              [op |-> "restartSttRuntime",
                               arg |-> << "settings:save" >>, ms |-> 0] >>
         /\ (ReloadRequested /\ ~sttReloadInProgress /\ ~shutdownStarted) =>
              /\ reloadPc' = "stopping" \/ created' = created + 1
              /\ sttClient # 0 => ws'[sttClient] = "none"
         /\ created' # created =>
              /\ created' = created + 1 /\ sttWatchdog' = created'
              /\ wd'[created'].spawns = 1
              /\ sttReloadInProgress \/ ReloadRequested
         /\ (reloadPc # "idle" /\ reloadPc' = "idle") => ~sttReloadInProgress' ]_vars

\* a save that asks for a reload has been handled while a reload waited for
\* its connection, and nothing but the configuration was touched
C31_Witness ==
  /\ sttReloadInProgress /\ reloadPc = "connecting" /\ created = 2
  /\ fx.log = << [op |-> "saveConfig", arg |-> << >>, ms |-> 0],
                 [op |-> "restartSttRuntime", arg |-> << "settings:save" >>, ms |-> 0] >>
  /\ fx.spawned[2] # createWatchdog(triggerMode, appConfig)

\* C32: while a reload is in progress no session is active, no auto-stop
\* timer is pending, and no step that begins or ends in the reload sends a
\* command; and when the reload creates the new supervisor and spawns its
\* worker, every earlier client's socket is closed and every earlier
\* supervisor's worker has exited.
C32_ReloadQuiescent ==
  /\ [](sttReloadInProgress =>
          /\ ~recordingActive
          /\ autoStopTimers = << >> /\ wakeAutoStopTimer = "none")
  /\ [][ /\ (sttReloadInProgress \/ sttReloadInProgress') => ~CommandSent
         /\ created' # created =>
              \A c \in 1..created : ws'[c] = "none" /\ wd'[c].procs = 0 ]_vars

\* C33: when a READY frame is handled while the status is the one that the
\* close handler has shown, which is the case after a disconnect and the
\* reconnection, the coordinator is left idle: the status is idle, no
\* session is active and no auto-stop timer is pending.
C33_CleanAfterReconnect ==
  [][ (MsgReady(1) /\ status = "error" /\ bootPc = "done") =>
        /\ status' = "idle"
        /\ ~recordingActive'
        /\ autoStopTimers' = << >> /\ wakeAutoStopTimer' = "none" ]_vars

\* C34: once shutdown has started the coordinator sends no command: the
\* QUIT of the before-quit handler is the last frame it puts on a
\* connection, and no connection opened afterwards is used.
C34_NoCommandAfterShutdown ==
  [][ shutdownStarted => ~CommandSent ]_vars

\* C35: the trigger mode, the wake phrase and the maximum duration in use
\* change in the steps of settings:save only: no trigger event, timer and
\* worker frame changes them.
C35_ConfigChangesBySaveOnly ==
  [][ \/ /\ triggerMode' = triggerMode
         /\ appConfig'.wakeWord = appConfig.wakeWord
         /\ appConfig'.wakeRecordMs = appConfig.wakeRecordMs
      \/ SettingsSaveRequest ]_vars

\* the exit codes: 0, and 1 for every other value
ExitCodes == {0, 1}

\* C36: whenever a worker of the supervisor is running, its exit leaves the
\* supervisor without a child and, if stop() was requested or the code is
\* 0, changes nothing else: the ledger, the pending restarts, the count of
\* fatal-exit calls and the status shown stay as they are; every other
\* exit is handled as a crash: its time enters the ledger, and either one
\* restart is scheduled or the fatal-exit callback is called once.
C36_IntendedExitIgnored ==
  /\ [](wd[1].procs > 0 =>
          \A code \in ExitCodes :
            LET after == onChildExit(S, 1, code)
                ignored == [S EXCEPT !.wd[1].child = FALSE, !.wd[1].procs = @ - 1]
            IN IF wd[1].stopping \/ code = 0
               THEN after = ignored
               ELSE /\ after.wd[1].crashTimes = Append(wd[1].crashTimes, now)
                    /\ Len(after.wd[1].restartTimestamps) >= 1
                    /\ after.wd[1].restartTimestamps[Len(after.wd[1].restartTimestamps)] = now
                    /\ \/ /\ after.wd[1].restartTimers =
                               Append(wd[1].restartTimers, RestartDelayMs)
                          /\ after.wd[1].fatal = wd[1].fatal
                       \/ /\ after.wd[1].restartTimers = wd[1].restartTimers
                          /\ after.wd[1].fatal = wd[1].fatal + 1)
  /\ [][ (ChildExit(1) /\ wd[1].stopping) =>
           /\ wd'[1].restartTimestamps = wd[1].restartTimestamps
           /\ wd'[1].restartTimers = wd[1].restartTimers
           /\ wd'[1].crashTimes = wd[1].crashTimes
           /\ wd'[1].fatal = wd[1].fatal /\ wd'[1].spawns = wd[1].spawns
           /\ status' = status ]_vars

\* the first worker has exited after stop() was requested, and nothing was
\* entered, scheduled or reported
C36_Witness ==
  /\ wd[1].stopping /\ wd[1].procs = 0 /\ ~wd[1].child /\ wd[1].waiters = {}
  /\ wd[1].spawns = 1 /\ wd[1].crashTimes = << >>
  /\ wd[1].restartTimestamps = << >> /\ wd[1].restartTimers = << >>
  /\ wd[1].fatal = 0

\* C37: whenever no supervised reload is in progress, the configuration the
\* running worker was spawned with (trigger mode, wake phrase, language)
\* equals the coordinator's current trigger mode and in-memory configuration,
\* also after a save rejected for an invalid hotkey and after a second save
\* made during a reload.
C37_WorkerMatchesConfig ==
  (~sttReloadInProgress /\ sttWatchdog # 0) =>
    fx.spawned[sttWatchdog] = createWatchdog(triggerMode, appConfig)

\* C38: the status reported to the UI is idle only while no session is
\* active: the delayed revert to idle that follows a success (1500 ms) or an
\* error (3000 ms) never overwrites the recording or transcribing status of a
\* session that started before the delay elapsed.
C38_IdleRevertKeepsSession ==
  [][ (IdleTimerFires /\ status \in {"recording", "transcribing"}) =>
        status' = status ]_vars

\* C39: the reconnect loop never ends with an error: when a supervised reload
\* removes or replaces the channel reference while the loop waits between
\* attempts or is inside an attempt, the loop ends normally (shutdown has
\* begun, or the current channel is connected) or goes on with the current
\* channel; it evaluates its condition on no removed channel, and no attempt
\* connects a channel that is not the current one.
C39_LoopSurvivesReload ==
  [][ \A l \in LoopIds :
        /\ (loop[l].pc \in {"connect", "sleep"} /\ loop'[l] # loop[l]
               /\ loop'[l].pc # "sleep") =>
             (shutdownStarted \/ sttClient # 0)
        /\ (loop[l].pc = "connect" /\ ws[loop[l].on] # "open"
               /\ ws'[loop[l].on] = "open") =>
             loop[l].on = sttClient ]_vars

\* C40: a STOP is sent only on the connection on which the START of the same
\* session was sent: after a disconnect and a reconnection during Recording,
\* neither a key release, an AUTO_STOP frame nor the auto-stop timer sends a
\* STOP on the new connection, which has carried no START.
C40_StopOnStartConnection == [][ StopSent => fx.started ]_vars

====
